---- MODULE Spec2Model ----
(***************************************************************************)
(* A model of the generation engine of testgen-cli: the worker pool        *)
(* (internal/generator/worker.go), the rate limiter and batcher            *)
(* (internal/llm/ratelimit.go), the response cache (package llm, Cache)    *)
(* and the engine (package generator, Engine).                             *)
(*                                                                         *)
(* Each component has its own specification over its own variables; the    *)
(* variables of the other components stay at their initial values.         *)
(***************************************************************************)
EXTENDS Integers, Sequences, FiniteSets, TLC

(***************************************************************************)
(* Bounds of the model.                                                    *)
(***************************************************************************)
MaxFiles == 3
MaxWorkers == 1
MaxRPM == 2
MaxTicks == 3
MaxCallers == 2
MaxCalls == 4
MaxCacheSize == 2
MaxCacheOps == 5
MaxGoroutines == 2
MaxFieldLen == 1
MaxPairs == 3
MaxGenCalls == 2
MaxSegments == 3
MaxReqs == 2
MaxSnapshots == 2
MaxRunFiles == 2
MaxBatchSize == 2
MaxAdds == 4
MaxFlushCalls == 1
MaxBatchCallers == 2
MaxClientCalls == 3
MaxSnippets == 3
MaxValFiles == 3
MaxDedupJobs == 3
MaxDedupWorkers == 2
MaxTuiFiles == 2
MaxPresses == 2

(***************************************************************************)
(* Program constants.                                                      *)
(***************************************************************************)
DefaultWorkers == 2
DefaultRPM == 60
DefaultCacheSize == 10000
DefaultBatchSize == 5

\* A pointer, and a file that may not exist, is the set of what it holds:
\* nil (no file) is the empty set.
Nil == {}
Ptr(x) == {x}

VARIABLES
    uiCancel,     \* running screen: m.cancel of the model the program updates and draws
    runCancel,    \* m.cancel of the copy of the model that runGenerate works on
    tctx,         \* the context of the run is cancelled
    tfiles,       \* the source files the scan found
    tfi,          \* the file the loop of runGenerate is at
    tuipc,        \* where runGenerate is
    tmsg,         \* the message runGenerate returned, "none" before
    mdone,        \* m.done of the program's model
    mlogs,        \* the "Cancelling..." lines in m.logs
    presses,      \* ctrl+x key presses so far
    pressedAt,    \* the number of files started when ctrl+x was first pressed during the run
    cpre,         \* per caller: the ctx of its Wait call was done when the call was made
    dqueue,       \* workers sharing one engine: the prompts still to be generated
    dpc,          \* per worker: where it is in generateTestForDefinition
    dprompt,      \* per worker: the rendered prompt it is working on
    dcached,      \* the prompts whose response is in the engine's cache
    danswers,     \* per prompt: the responses Provider.Complete has returned
    dsrc,         \* per worker: where its last response came from
    ctxExpired,   \* Generate: the deadline of its context has passed
    valFlags,     \* validate command: --min-coverage and --fail-on-missing-tests
    valFiles,     \* the number of source files under --path
    valpc,        \* where runValidate (then main) is
    valResult,    \* the validation.Result
    valErr,       \* the error cmd.Execute returns, "nil" for none
    exitCode,     \* the exit status of the process, -1 while it runs
    qlang,        \* postProcess run: the language of the file
    qsnippets,    \* the code generateTestForDefinition returned for each pair
    qi,           \* the pair the loop is at
    qall,         \* allTests.String() so far
    qout,         \* the post-processed code, Nil until postProcess has run
    cbackend,     \* which backend the provider object talks to
    cenv,         \* the API-key environment variables of the process
    pconfig,      \* p.config of the provider
    pusage,       \* p.usage of the provider
    clast,        \* the last Configure or Complete call and what it returned
    ccalls,       \* calls made on the provider so far
    \* ---- Batcher (ratelimit.go) ----
    batchSize,    \* b.batchSize
    pending,      \* b.pending
    nextReq,      \* the request the next Add call adds (requests are numbered)
    flushCalls,   \* the number of Flush calls made by callers of the Batcher
    tpc,          \* per goroutine: "idle", "addflush" (Add is about to call Flush)
                  \* or "flushcall" (Flush is about to call BatchComplete)
    tadd,         \* per goroutine: the number of the Add call it is in, 0 if in none
    treqs,        \* per goroutine: Flush's local reqs, and b.pending as Flush left it
    batchCalls,   \* the arguments of the Provider.BatchComplete calls made
    lastFlush,    \* the last Flush call that returned: queue found, return value
    lastAdd,      \* the last Add call that returned: flush made, requests sent, pending after
    seqOnly,      \* all calls so far were Add calls made one after another
    \* ---- runGenerate (cmd/generate.go) ----
    gflags,       \* the flags: genDryRun, genValidate, genInteractive, json, quiet
    sourceFiles,  \* the scanned files, each with what happens to it
    gresults,     \* processFiles: the slice results
    gi,           \* processFiles: the loop index
    runpc,        \* runGenerate: "off", "start", "process", "output" or "returned"
    gret,         \* runGenerate: the error it returned ("nil" for none)
    \* ---- OpenAIProvider (openai.go): Complete, BatchComplete, GetUsage ----
    reqs,         \* BatchComplete: the argument reqs, with the server's answer to each
    responses,    \* BatchComplete: the slice responses ("nil" or a response)
    errChan,      \* BatchComplete: the buffered channel errChan
    bi,           \* BatchComplete: the index of the next goroutine to start
    bpc,          \* BatchComplete: "off", "spawn", "wait", "collect" or "returned"
    bret,         \* BatchComplete: what it returned
    ppc,          \* per goroutine: its position in the closure and in Complete
    pmu,          \* p.mu: 0 when free, else who holds it
    usage,        \* p.usage
    upc,          \* GetUsage: "idle" or "locked"
    snapshots,    \* the snapshots GetUsage has returned
    \* ---- extractCodeFromResponse (generator engine) ----
    xresponse,    \* the argument response
    xlang,        \* the argument language
    xcode,        \* the string returned
    xpc,          \* "off", "call" (about to run) or "done"
    \* ---- WorkerPool (worker.go) ----
    files,        \* the argument of ProcessFiles: a sequence of file kinds
    workers,      \* wp.workers
    jobs,         \* wp.jobs: the buffered channel's content
    jobsClosed,   \* close(wp.jobs) has happened
    results,      \* wp.results: the buffered channel's content
    wpc,          \* worker goroutine -> "idle", "select", "generate", "send", "done"
    wjob,         \* worker goroutine -> the job it holds (a file index, 0: none)
    spc,          \* the submitting goroutine: "idle", "submit", "done"
    si,           \* the submitting goroutine: index of the next file to Submit
    mpc,          \* ProcessFiles itself: "start", "loop", "wait", "done"
    mi,           \* ProcessFiles: the loop counter i
    collected,    \* ProcessFiles: the local slice results
    cancelled,    \* ctx.Done() is closed
    \* ---- RateLimiter (ratelimit.go) ----
    rpm,          \* rl.requestsPerMinute
    tokens,       \* rl.tokens: the number of permits in the buffered channel
    ticks,        \* the number of ticks the refill ticker has delivered
    granted,      \* the number of Wait calls that have returned nil
    grantsAt,     \* refill interval -> the Wait calls that returned nil during it
    cpc,          \* calling goroutine -> "idle", "waiting" (at the select),
                  \* "parked" (blocked in it), "woken" (by ctx.Done), "ok", "err"
    cctx,         \* calling goroutine -> the ctx of its Wait call is done
    calls,        \* the number of Wait calls made
    \* ---- Cache (package llm) ----
    heap,         \* the CompletionResponse objects: object id -> its fields
    entries,      \* c.entries: key -> the id of the entry's response object
    maxSize,      \* c.maxSize
    hits,         \* c.hits
    misses,       \* c.misses
    \* ---- a caller of the Cache, one call after the other ----
    owned,        \* the ids of the responses the caller has built itself
    fromGet,      \* <<id, key>>: the responses Get has returned, and for which key
    lastOp,       \* the caller's last operation
    cacheOps,     \* the number of operations made
    \* ---- goroutines calling the Cache concurrently ----
    readers,      \* c.mu: the number of goroutines holding the read lock
    gpc,          \* goroutine -> "idle", "lookup", "load", "store"
    gkey,         \* goroutine -> the key of its Get call
    gfound,       \* goroutine -> exists, of its Get call
    gtmp,         \* goroutine -> the counter value its c.hits++ / c.misses++ loaded
    getsDone,     \* the number of Get calls that have returned
    getsFound,    \* the number of Get calls that have returned found
    \* ---- GenerateKey on two triples ----
    tripleA, tripleB,   \* <<prompt, systemRole, model>>
    keyA, keyB,         \* the keys GenerateKey returned for them
    kpc,                \* "input", "done"
    \* ---- Engine (package generator) ----
    ecfg,         \* e.config: DryRun, Validate, TestTypes
    providerCalls,\* the number of e.provider.Complete calls made
    epc,          \* Generate: "idle", "pairs", "finish", "returned"
    einput,       \* Generate: what the file and the environment gave this call
    edi, eti,     \* Generate: the loop indexes over definitions and TestTypes
    allTests,     \* Generate: the strings.Builder allTests
    functionsTested, \* Generate: the slice functionsTested
    eresult,      \* Generate: what it returned
    written,      \* Generate: the content written to the test path, if any
    validations,  \* Generate: the number of adapter.ValidateTests calls
    testFile,     \* the file at the test path: Nil when there is none, else its content
    elog,         \* every generateTestForDefinition call made and its outcome
    ecall         \* the number of Generate calls made

poolVars == <<files, workers, jobs, jobsClosed, results, wpc, wjob, spc, si,
              mpc, mi, collected, cancelled>>

rlVars == <<rpm, tokens, ticks, granted, grantsAt, cpc, cctx, calls>>

cacheVars == <<heap, entries, maxSize, hits, misses>>

callerVars == <<owned, fromGet, lastOp, cacheOps>>

concVars == <<readers, gpc, gkey, gfound, gtmp, getsDone, getsFound>>

keyVars == <<tripleA, tripleB, keyA, keyB, kpc>>

engVars == <<ecfg, providerCalls, epc, einput, edi, eti, allTests,
             functionsTested, eresult, written, validations, testFile, elog, ecall>>

extractVars == <<xresponse, xlang, xcode, xpc>>

providerVars == <<reqs, responses, errChan, bi, bpc, bret, ppc, pmu, usage, upc, snapshots>>

runVars == <<gflags, sourceFiles, gresults, gi, runpc, gret>>

batcherVars == <<batchSize, pending, nextReq, flushCalls, tpc, tadd, treqs, batchCalls,
                 lastFlush, lastAdd, seqOnly>>

clientVars == <<cbackend, cenv, pconfig, pusage, clast, ccalls>>

postVars == <<qlang, qsnippets, qi, qall, qout>>

validateVars == <<valFlags, valFiles, valpc, valResult, valErr, exitCode>>

ctxVars == <<ctxExpired>>

dedupVars == <<dqueue, dpc, dprompt, dcached, danswers, dsrc>>

waitVars == <<cpre>>

tuiVars == <<uiCancel, runCancel, tctx, tfiles, tfi, tuipc, tmsg, mdone, mlogs, presses, pressedAt>>

vars == <<poolVars, rlVars, cacheVars, callerVars, concVars, keyVars, engVars, extractVars, providerVars, runVars, batcherVars, clientVars, postVars, validateVars, ctxVars, dedupVars, waitVars, tuiVars>>

nonPoolVars == <<rlVars, cacheVars, callerVars, concVars, keyVars, engVars, extractVars, providerVars, runVars, batcherVars, clientVars, postVars, validateVars, ctxVars, dedupVars, waitVars, tuiVars>>
nonRLVars == <<poolVars, cacheVars, callerVars, concVars, keyVars, engVars, extractVars, providerVars, runVars, batcherVars, clientVars, postVars, validateVars, ctxVars, dedupVars, tuiVars>>
nonCacheVars == <<poolVars, rlVars, keyVars, engVars, extractVars, providerVars, runVars, batcherVars, clientVars, postVars, validateVars, ctxVars, dedupVars, waitVars, tuiVars>>
nonKeyVars == <<poolVars, rlVars, cacheVars, callerVars, concVars, engVars, extractVars, providerVars, runVars, batcherVars, clientVars, postVars, validateVars, ctxVars, dedupVars, waitVars, tuiVars>>
nonExtractVars == <<poolVars, rlVars, cacheVars, callerVars, concVars, keyVars, engVars, providerVars, runVars, batcherVars, clientVars, postVars, validateVars, ctxVars, dedupVars, waitVars, tuiVars>>
nonProviderVars == <<poolVars, rlVars, cacheVars, callerVars, concVars, keyVars, engVars, extractVars, runVars, batcherVars, clientVars, postVars, validateVars, ctxVars, dedupVars, waitVars, tuiVars>>
nonRunVars == <<poolVars, rlVars, cacheVars, callerVars, concVars, keyVars, engVars, extractVars, providerVars, batcherVars, clientVars, postVars, validateVars, ctxVars, dedupVars, waitVars, tuiVars>>
nonBatcherVars == <<poolVars, rlVars, cacheVars, callerVars, concVars, keyVars, engVars, extractVars, providerVars, runVars, clientVars, postVars, validateVars, ctxVars, dedupVars, waitVars, tuiVars>>
nonClientVars == <<poolVars, rlVars, cacheVars, callerVars, concVars, keyVars, engVars, extractVars, providerVars, runVars, batcherVars, postVars, validateVars, ctxVars, dedupVars, waitVars, tuiVars>>
nonPostVars == <<poolVars, rlVars, cacheVars, callerVars, concVars, keyVars, engVars, extractVars, providerVars, runVars, batcherVars, clientVars, validateVars, ctxVars, dedupVars, waitVars, tuiVars>>
nonValidateVars == <<poolVars, rlVars, cacheVars, callerVars, concVars, keyVars, engVars, extractVars, providerVars, runVars, batcherVars, clientVars, postVars, ctxVars, dedupVars, waitVars, tuiVars>>
nonDedupVars == <<poolVars, rlVars, cacheVars, callerVars, concVars, keyVars, engVars, extractVars, providerVars, runVars, batcherVars, clientVars, postVars, validateVars, ctxVars, waitVars, tuiVars>>
nonTuiVars == <<poolVars, rlVars, cacheVars, callerVars, concVars, keyVars, engVars, extractVars, providerVars, runVars, batcherVars, clientVars, postVars, validateVars, ctxVars, dedupVars, waitVars>>
nonEngineVars == <<poolVars, rlVars, callerVars, concVars, keyVars, extractVars, providerVars, runVars, batcherVars, clientVars, postVars, validateVars, dedupVars, waitVars, tuiVars>>

(***************************************************************************)
(* The values a component's variables hold in the specifications of the    *)
(* other components, where it is never constructed.                        *)
(***************************************************************************)
ExtractIdle ==
    /\ xresponse = <<>>
    /\ xlang = <<>>
    /\ xcode = <<>>
    /\ xpc = "off"

ProviderIdle ==
    /\ reqs = <<>>
    /\ responses = <<>>
    /\ errChan = <<>>
    /\ bi = 0
    /\ bpc = "off"
    /\ bret = <<>>
    /\ ppc = <<>>
    /\ pmu = 0
    /\ usage = <<>>
    /\ upc = "idle"
    /\ snapshots = <<>>

RunIdle ==
    /\ gflags = <<>>
    /\ sourceFiles = <<>>
    /\ gresults = <<>>
    /\ gi = 0
    /\ runpc = "off"
    /\ gret = "none"

BatcherIdle ==
    /\ batchSize = 0
    /\ pending = <<>>
    /\ nextReq = 0
    /\ flushCalls = 0
    /\ tpc = <<>>
    /\ tadd = <<>>
    /\ treqs = <<>>
    /\ batchCalls = <<>>
    /\ lastFlush = <<>>
    /\ lastAdd = <<>>
    /\ seqOnly = FALSE

ClientIdle ==
    /\ cbackend = "none"
    /\ cenv = <<>>
    /\ pconfig = <<>>
    /\ pusage = <<>>
    /\ clast = <<>>
    /\ ccalls = 0

PostIdle ==
    /\ qlang = <<>>
    /\ qsnippets = <<>>
    /\ qi = 0
    /\ qall = <<>>
    /\ qout = Nil

ValidateIdle ==
    /\ valFlags = <<>>
    /\ valFiles = 0
    /\ valpc = "off"
    /\ valResult = <<>>
    /\ valErr = "nil"
    /\ exitCode = 0 - 1

CtxIdle ==
    /\ ctxExpired = FALSE

DedupIdle ==
    /\ dqueue = <<>>
    /\ dpc = <<>>
    /\ dprompt = <<>>
    /\ dcached = {}
    /\ danswers = <<>>
    /\ dsrc = <<>>

WaitIdle ==
    /\ cpre = <<>>

TuiIdle ==
    /\ uiCancel = Nil
    /\ runCancel = Nil
    /\ tctx = FALSE
    /\ tfiles = <<>>
    /\ tfi = 0
    /\ tuipc = "off"
    /\ tmsg = "none"
    /\ mdone = FALSE
    /\ mlogs = 0
    /\ presses = 0
    /\ pressedAt = Nil

PoolIdle ==
    /\ files = <<>>
    /\ workers = 0
    /\ jobs = <<>>
    /\ jobsClosed = FALSE
    /\ results = <<>>
    /\ wpc = <<>>
    /\ wjob = <<>>
    /\ spc = "idle"
    /\ si = 1
    /\ mpc = "off"
    /\ mi = 0
    /\ collected = <<>>
    /\ cancelled = FALSE

RLIdle ==
    /\ rpm = 0
    /\ tokens = 0
    /\ ticks = 0
    /\ granted = 0
    /\ grantsAt = <<>>
    /\ cpc = <<>>
    /\ cctx = <<>>
    /\ calls = 0

CacheIdle ==
    /\ heap = <<>>
    /\ entries = <<>>
    /\ maxSize = 0
    /\ hits = 0
    /\ misses = 0

CallerIdle ==
    /\ owned = {}
    /\ fromGet = {}
    /\ lastOp = [op |-> "none"]
    /\ cacheOps = 0

ConcIdle ==
    /\ readers = 0
    /\ gpc = <<>>
    /\ gkey = <<>>
    /\ gfound = <<>>
    /\ gtmp = <<>>
    /\ getsDone = 0
    /\ getsFound = 0

KeyIdle ==
    /\ tripleA = <<>>
    /\ tripleB = <<>>
    /\ keyA = <<>>
    /\ keyB = <<>>
    /\ kpc = "off"

EngineIdle ==
    /\ ecfg = <<>>
    /\ providerCalls = 0
    /\ epc = "off"
    /\ einput = <<>>
    /\ edi = 0
    /\ eti = 0
    /\ allTests = <<>>
    /\ functionsTested = <<>>
    /\ eresult = <<>>
    /\ written = <<>>
    /\ validations = 0
    /\ testFile = Nil
    /\ elog = <<>>
    /\ ecall = 0

(***************************************************************************)
(* Helpers.                                                                *)
(***************************************************************************)
SeqsUpTo(S, n) == UNION {[1..k -> S] : k \in 0..n}

(***************************************************************************)
(* WorkerPool.                                                             *)
(*                                                                         *)
(* A file is one of: "ok" (an adapter exists and Engine.Generate returns a *)
(* result), "generr" (an adapter exists and Engine.Generate returns an     *)
(* error), "noadapter" (the registry has no adapter for its language).     *)
(***************************************************************************)
FileKinds == {"ok", "generr", "noadapter"}

\* NewWorkerPool: workers <= 0 becomes 2.
NewWorkerPoolWorkers(arg) == IF arg <= 0 THEN DefaultWorkers ELSE arg

\* make(chan ..., workers*2): the capacity of both channels.
ChanCap == workers * 2

Workers == 1..workers

\* wp.registry.GetAdapter(file.Language) == nil
NoAdapter(f) == files[f] = "noadapter"

\* The result the code builds for file f: Submit's for a file with no adapter
\* (ErrorMessage only), the worker's for a Generate error (Error and
\* ErrorMessage), Generate's own otherwise.
SubmitErrorResult(f) == [file |-> f, error |-> FALSE, errorMessage |-> TRUE]
WorkerResult(f) ==
    IF files[f] = "generr"
    THEN [file |-> f, error |-> TRUE, errorMessage |-> TRUE]
    ELSE [file |-> f, error |-> FALSE, errorMessage |-> FALSE]

PoolInit ==
    /\ files \in SeqsUpTo(FileKinds, MaxFiles)
    /\ workers \in {NewWorkerPoolWorkers(a) : a \in 0..MaxWorkers}
    /\ jobs = <<>>
    /\ jobsClosed = FALSE
    /\ results = <<>>
    /\ wpc = [w \in 1..workers |-> "idle"]
    /\ wjob = [w \in 1..workers |-> 0]
    /\ spc = "idle"
    /\ si = 1
    /\ mpc = "start"
    /\ mi = 0
    /\ collected = <<>>
    /\ cancelled = FALSE

\* ProcessFiles: wp.Start(ctx) and the go statement of the submitting goroutine.
PFStart ==
    /\ mpc = "start"
    /\ mpc' = "loop"
    /\ wpc' = [w \in Workers |-> "select"]
    /\ spc' = "submit"
    /\ UNCHANGED <<files, workers, jobs, jobsClosed, results, wjob, si, mi,
                   collected, cancelled>>
    /\ UNCHANGED nonPoolVars

\* Submit, no adapter: wp.results <- errorResult (blocks while the channel is full).
SubmitNoAdapter ==
    /\ spc = "submit"
    /\ si <= Len(files)
    /\ NoAdapter(si)
    /\ Len(results) < ChanCap
    /\ results' = Append(results, SubmitErrorResult(si))
    /\ si' = si + 1
    /\ UNCHANGED <<files, workers, jobs, jobsClosed, wpc, wjob, spc, mpc, mi,
                   collected, cancelled>>
    /\ UNCHANGED nonPoolVars

\* Submit, adapter found: wp.jobs <- job (blocks while the channel is full).
SubmitJob ==
    /\ spc = "submit"
    /\ si <= Len(files)
    /\ ~NoAdapter(si)
    /\ Len(jobs) < ChanCap
    /\ jobs' = Append(jobs, si)
    /\ si' = si + 1
    /\ UNCHANGED <<files, workers, jobsClosed, results, wpc, wjob, spc, mpc, mi,
                   collected, cancelled>>
    /\ UNCHANGED nonPoolVars

\* The submitting goroutine after its loop: close(wp.jobs).
CloseJobs ==
    /\ spc = "submit"
    /\ si > Len(files)
    /\ jobsClosed' = TRUE
    /\ spc' = "done"
    /\ UNCHANGED <<files, workers, jobs, results, wpc, wjob, si, mpc, mi,
                   collected, cancelled>>
    /\ UNCHANGED nonPoolVars

\* worker, select: case <-ctx.Done(): return.
WorkerCtxDone(w) ==
    /\ wpc[w] = "select"
    /\ cancelled
    /\ wpc' = [wpc EXCEPT ![w] = "done"]
    /\ UNCHANGED <<files, workers, jobs, jobsClosed, results, wjob, spc, si,
                   mpc, mi, collected, cancelled>>
    /\ UNCHANGED nonPoolVars

\* A variant of WorkerRecvJob: the job stays in the channel after the receive.
WorkerRecvJob_Peek(w) ==
    /\ wpc[w] = "select"
    /\ jobs # <<>>
    /\ wjob' = [wjob EXCEPT ![w] = Head(jobs)]
    /\ wpc' = [wpc EXCEPT ![w] = "generate"]
    /\ UNCHANGED <<files, workers, jobs, jobsClosed, results, spc, si, mpc, mi,
                   collected, cancelled>>
    /\ UNCHANGED nonPoolVars

\* worker, select: case j, ok := <-wp.jobs with ok.
WorkerRecvJob(w) ==
    /\ wpc[w] = "select"
    /\ jobs # <<>>
    /\ wjob' = [wjob EXCEPT ![w] = Head(jobs)]
    /\ jobs' = Tail(jobs)
    /\ wpc' = [wpc EXCEPT ![w] = "generate"]
    /\ UNCHANGED <<files, workers, jobsClosed, results, spc, si, mpc, mi,
                   collected, cancelled>>
    /\ UNCHANGED nonPoolVars

\* worker, select: case j, ok := <-wp.jobs with !ok (closed and drained): return.
WorkerJobsClosed(w) ==
    /\ wpc[w] = "select"
    /\ jobs = <<>>
    /\ jobsClosed
    /\ wpc' = [wpc EXCEPT ![w] = "done"]
    /\ UNCHANGED <<files, workers, jobs, jobsClosed, results, wjob, spc, si,
                   mpc, mi, collected, cancelled>>
    /\ UNCHANGED nonPoolVars

\* worker: result, err := wp.engine.Generate(...) and the error result on err.
WorkerGenerate(w) ==
    /\ wpc[w] = "generate"
    /\ wpc' = [wpc EXCEPT ![w] = "send"]
    /\ UNCHANGED <<files, workers, jobs, jobsClosed, results, wjob, spc, si,
                   mpc, mi, collected, cancelled>>
    /\ UNCHANGED nonPoolVars

\* A variant of WorkerSend: the worker sends nothing for a job whose Generate
\* returned an error (it goes on with the next job).
WorkerSend_DropError(w) ==
    /\ wpc[w] = "send"
    /\ files[wjob[w]] = "generr" \/ Len(results) < ChanCap
    /\ results' = IF files[wjob[w]] = "generr" THEN results
                  ELSE Append(results, WorkerResult(wjob[w]))
    /\ wjob' = [wjob EXCEPT ![w] = 0]
    /\ wpc' = [wpc EXCEPT ![w] = "select"]
    /\ UNCHANGED <<files, workers, jobs, jobsClosed, spc, si, mpc, mi,
                   collected, cancelled>>
    /\ UNCHANGED nonPoolVars

\* worker: wp.results <- result (not in a select: blocks while the channel is full).
WorkerSend(w) ==
    /\ wpc[w] = "send"
    /\ Len(results) < ChanCap
    /\ results' = Append(results, WorkerResult(wjob[w]))
    /\ wjob' = [wjob EXCEPT ![w] = 0]
    /\ wpc' = [wpc EXCEPT ![w] = "select"]
    /\ UNCHANGED <<files, workers, jobs, jobsClosed, spc, si, mpc, mi,
                   collected, cancelled>>
    /\ UNCHANGED nonPoolVars

\* ProcessFiles, select: case r := <-wp.results: results = append(results, r).
CollectRecv ==
    /\ mpc = "loop"
    /\ mi < Len(files)
    /\ results # <<>>
    /\ collected' = Append(collected, Head(results))
    /\ results' = Tail(results)
    /\ mi' = mi + 1
    /\ UNCHANGED <<files, workers, jobs, jobsClosed, wpc, wjob, spc, si, mpc,
                   cancelled>>
    /\ UNCHANGED nonPoolVars

\* ProcessFiles, select: case <-ctx.Done(): break. The break leaves the select,
\* not the for loop: the loop goes on with i++.
CollectCtxDone ==
    /\ mpc = "loop"
    /\ mi < Len(files)
    /\ cancelled
    /\ mi' = mi + 1
    /\ UNCHANGED <<files, workers, jobs, jobsClosed, results, wpc, wjob, spc,
                   si, mpc, collected, cancelled>>
    /\ UNCHANGED nonPoolVars

\* ProcessFiles: the for loop ends at i = len(files).
CollectLoopEnd ==
    /\ mpc = "loop"
    /\ mi >= Len(files)
    /\ mpc' = "wait"
    /\ UNCHANGED <<files, workers, jobs, jobsClosed, results, wpc, wjob, spc,
                   si, mi, collected, cancelled>>
    /\ UNCHANGED nonPoolVars

\* ProcessFiles: wp.wg.Wait() returns once every worker has returned; return results.
PFReturn ==
    /\ mpc = "wait"
    /\ \A w \in Workers : wpc[w] = "done"
    /\ mpc' = "done"
    /\ UNCHANGED <<files, workers, jobs, jobsClosed, results, wpc, wjob, spc,
                   si, mi, collected, cancelled>>
    /\ UNCHANGED nonPoolVars

\* The caller's context is cancelled (at any moment before ProcessFiles returns).
CancelCtx ==
    /\ ~cancelled
    /\ mpc # "done"
    /\ cancelled' = TRUE
    /\ UNCHANGED <<files, workers, jobs, jobsClosed, results, wpc, wjob, spc,
                   si, mpc, mi, collected>>
    /\ UNCHANGED nonPoolVars

\* Every step of the pool's own goroutines.
PoolStep ==
    \/ PFStart
    \/ SubmitNoAdapter
    \/ SubmitJob
    \/ CloseJobs
    \/ \E w \in Workers : WorkerCtxDone(w)
    \/ \E w \in Workers : WorkerRecvJob(w)
    \/ \E w \in Workers : WorkerJobsClosed(w)
    \/ \E w \in Workers : WorkerGenerate(w)
    \/ \E w \in Workers : WorkerSend(w)
    \/ CollectRecv
    \/ CollectCtxDone
    \/ CollectLoopEnd
    \/ PFReturn

PoolNext == PoolStep \/ CancelCtx

\* The Go scheduler runs a goroutine that can take a step: weak fairness of the
\* pool's steps. Cancellation is the environment's choice and is not fair.
InitPool == PoolInit /\ RLIdle /\ CacheIdle /\ CallerIdle /\ ConcIdle /\ KeyIdle /\ EngineIdle /\ ExtractIdle /\ ProviderIdle /\ RunIdle /\ BatcherIdle /\ ClientIdle /\ PostIdle /\ ValidateIdle /\ CtxIdle /\ DedupIdle /\ WaitIdle /\ TuiIdle

SpecPool == InitPool /\ [][PoolNext]_vars /\ WF_vars(PoolStep)

(***************************************************************************)
(* RateLimiter.                                                            *)
(*                                                                         *)
(* Time is counted in refill intervals (time.Minute / requestsPerMinute):  *)
(* ticks is the number of ticks the ticker of refillLoop has delivered, so *)
(* a step taken while ticks = k happens during refill interval k, and one  *)
(* minute is rpm consecutive intervals.                                    *)
(***************************************************************************)
Callers == 1..MaxCallers

\* NewRateLimiter: requestsPerMinute <= 0 becomes 60.
NewRateLimiterRPM(arg) == IF arg <= 0 THEN DefaultRPM ELSE arg

\* NewRateLimiter: the channel has capacity requestsPerMinute and is filled;
\* refillLoop is started.
RLInit ==
    /\ rpm \in {NewRateLimiterRPM(a) : a \in 0..MaxRPM}
    /\ tokens = rpm
    /\ ticks = 0
    /\ granted = 0
    /\ grantsAt = [k \in 0..MaxTicks |-> 0]
    /\ cpc = [c \in Callers |-> "idle"]
    /\ cctx = [c \in Callers |-> FALSE]
    /\ calls = 0
    /\ cpre = [c \in Callers |-> FALSE]

\* The Wait calls blocked in the select: nothing was ready when they reached it.
Parked == {c \in Callers : cpc[c] = "parked"}

\* refillLoop, one tick: select { case rl.tokens <- struct{}{}: default: }.
\* With a Wait call blocked on the channel the send hands the permit to one
\* of them, which returns nil; otherwise the permit goes to the buffer
\* unless the buffer is full.
RefillTick ==
    /\ ticks < MaxTicks
    /\ ticks' = ticks + 1
    /\ IF Parked # {}
       THEN \E c \in Parked :
               /\ cpc' = [cpc EXCEPT ![c] = "ok"]
               /\ granted' = granted + 1
               /\ grantsAt' = [grantsAt EXCEPT ![ticks + 1] = @ + 1]
               /\ tokens' = tokens
       ELSE /\ tokens' = IF tokens < rpm THEN tokens + 1 ELSE tokens
            /\ UNCHANGED <<granted, grantsAt, cpc>>
    /\ UNCHANGED <<rpm, cctx, calls>>
    /\ UNCHANGED <<waitVars, nonRLVars>>

\* A goroutine calls Wait(ctx); done: the ctx is already done at the call.
WaitCall(c, done) ==
    /\ cpc[c] \in {"idle", "ok", "err"}
    /\ calls < MaxCalls
    /\ calls' = calls + 1
    /\ cpc' = [cpc EXCEPT ![c] = "waiting"]
    /\ cctx' = [cctx EXCEPT ![c] = done]
    /\ cpre' = [cpre EXCEPT ![c] = done]
    /\ UNCHANGED <<rpm, tokens, ticks, granted, grantsAt>>
    /\ UNCHANGED nonRLVars

\* A variant of WaitToken: Wait returns nil without receiving a permit when
\* the channel is empty.
WaitToken_NoPermit(c) ==
    /\ cpc[c] = "waiting"
    /\ tokens' = IF tokens > 0 THEN tokens - 1 ELSE tokens
    /\ cpc' = [cpc EXCEPT ![c] = "ok"]
    /\ granted' = granted + 1
    /\ grantsAt' = [grantsAt EXCEPT ![ticks] = @ + 1]
    /\ UNCHANGED <<rpm, ticks, cctx, calls>>
    /\ UNCHANGED <<waitVars, nonRLVars>>

\* Wait, select: case <-rl.tokens: return nil.
WaitToken(c) ==
    /\ cpc[c] = "waiting"
    /\ tokens > 0
    /\ tokens' = tokens - 1
    /\ cpc' = [cpc EXCEPT ![c] = "ok"]
    /\ granted' = granted + 1
    /\ grantsAt' = [grantsAt EXCEPT ![ticks] = @ + 1]
    /\ UNCHANGED <<rpm, ticks, cctx, calls>>
    /\ UNCHANGED <<waitVars, nonRLVars>>

\* Wait, select: case <-ctx.Done(): return ctx.Err().
WaitCtxDone(c) ==
    /\ cpc[c] = "waiting"
    /\ cctx[c]
    /\ cpc' = [cpc EXCEPT ![c] = "err"]
    /\ UNCHANGED <<rpm, tokens, ticks, granted, grantsAt, cctx, calls>>
    /\ UNCHANGED <<waitVars, nonRLVars>>

\* Wait, select: neither channel is ready, the goroutine blocks on both.
WaitPark(c) ==
    /\ cpc[c] = "waiting"
    /\ tokens = 0
    /\ ~cctx[c]
    /\ cpc' = [cpc EXCEPT ![c] = "parked"]
    /\ UNCHANGED <<rpm, tokens, ticks, granted, grantsAt, cctx, calls>>
    /\ UNCHANGED <<waitVars, nonRLVars>>

WaitCtxEnds_NoWake(c) ==
    /\ cpc[c] \in {"waiting", "parked"}
    /\ ~cctx[c]
    /\ cctx' = [cctx EXCEPT ![c] = TRUE]
    /\ UNCHANGED <<rpm, tokens, ticks, granted, grantsAt, cpc, calls>>
    /\ UNCHANGED <<waitVars, nonRLVars>>

\* The ctx of a pending Wait call is cancelled or reaches its deadline: the
\* close of ctx.Done() wakes a call blocked in the select with that case.
WaitCtxEnds(c) ==
    /\ cpc[c] \in {"waiting", "parked"}
    /\ ~cctx[c]
    /\ cctx' = [cctx EXCEPT ![c] = TRUE]
    /\ cpc' = [cpc EXCEPT ![c] = IF cpc[c] = "parked" THEN "woken" ELSE @]
    /\ UNCHANGED <<rpm, tokens, ticks, granted, grantsAt, calls>>
    /\ UNCHANGED <<waitVars, nonRLVars>>

\* Wait, woken by ctx.Done(): return ctx.Err().
WaitCtxReturn(c) ==
    /\ cpc[c] = "woken"
    /\ cpc' = [cpc EXCEPT ![c] = "err"]
    /\ UNCHANGED <<rpm, tokens, ticks, granted, grantsAt, cctx, calls>>
    /\ UNCHANGED <<waitVars, nonRLVars>>

RLNext ==
    \/ RefillTick
    \/ \E c \in Callers, done \in BOOLEAN : WaitCall(c, done)
    \/ \E c \in Callers : WaitToken(c)
    \/ \E c \in Callers : WaitCtxDone(c)
    \/ \E c \in Callers : WaitPark(c)
    \/ \E c \in Callers : WaitCtxEnds(c)
    \/ \E c \in Callers : WaitCtxReturn(c)

InitRL == RLInit /\ PoolIdle /\ CacheIdle /\ CallerIdle /\ ConcIdle /\ KeyIdle /\ EngineIdle /\ ExtractIdle /\ ProviderIdle /\ RunIdle /\ BatcherIdle /\ ClientIdle /\ PostIdle /\ ValidateIdle /\ CtxIdle /\ DedupIdle /\ TuiIdle

SpecRL == InitRL /\ [][RLNext]_vars


(***************************************************************************)
(* Cache (package llm): GenerateKey.                                       *)
(*                                                                         *)
(* A string is a sequence of characters. SHA-256 is taken as injective on  *)
(* the bytes written to the hasher: the key is that byte sequence.         *)
(***************************************************************************)
Sha256Hex(bytes) == bytes

\* hasher.Write(prompt); Write("|"); Write(systemRole); Write("|"); Write(model)
GenerateKey(prompt, systemRole, model) ==
    Sha256Hex(prompt \o <<"|">> \o systemRole \o <<"|">> \o model)

\* The values of a field of the triple: strings over 'a' and the separator.
FieldValues == SeqsUpTo({"a", "|"}, MaxFieldLen)

KeyInit ==
    /\ tripleA \in FieldValues \X FieldValues \X FieldValues
    /\ tripleB \in FieldValues \X FieldValues \X FieldValues
    /\ keyA = <<>>
    /\ keyB = <<>>
    /\ kpc = "input"

\* c.GenerateKey on both triples.
ComputeKeys ==
    /\ kpc = "input"
    /\ keyA' = GenerateKey(tripleA[1], tripleA[2], tripleA[3])
    /\ keyB' = GenerateKey(tripleB[1], tripleB[2], tripleB[3])
    /\ kpc' = "done"
    /\ UNCHANGED <<tripleA, tripleB>>
    /\ UNCHANGED nonKeyVars

KeyNext == ComputeKeys

InitKey == KeyInit /\ PoolIdle /\ RLIdle /\ CacheIdle /\ CallerIdle /\ ConcIdle /\ EngineIdle /\ ExtractIdle /\ ProviderIdle /\ RunIdle /\ BatcherIdle /\ ClientIdle /\ PostIdle /\ ValidateIdle /\ CtxIdle /\ DedupIdle /\ WaitIdle /\ TuiIdle

SpecKey == InitKey /\ [][KeyNext]_vars

(***************************************************************************)
(* Cache (package llm): Get, Set, Clear, Stats.                            *)
(*                                                                         *)
(* c.entries holds pointers: entries maps a key to the id of a response    *)
(* object, and heap maps an object id to the object's fields. The fields   *)
(* of CompletionResponse kept are Content, TokensInput and Cached          *)
(* (TokensOutput, Model and FinishReason are copied like TokensInput).     *)
(***************************************************************************)
NoEntries == [k \in {} |-> 0]

\* NewCache: maxSize <= 0 becomes 10000.
NewCacheMaxSize(arg) == IF arg <= 0 THEN DefaultCacheSize ELSE arg

\* A response as a provider builds it.
NewResponse(content) == [content |-> content, tokensInput |-> 1, cached |-> FALSE]

\* heap with the fields of object o set to rec; o may be a new object.
HeapWith(o, rec) ==
    IF o > Len(heap) THEN Append(heap, rec) ELSE [heap EXCEPT ![o] = rec]

\* Set: the keys the eviction loop may delete. Go ranges over a map in an
\* unspecified order, so any present key may be the first one found.
NoKey == <<"none">>

\* A variant of Victims: Set never evicts.
Victims_Never == {NoKey}

\* Set: the keys the eviction loop may delete (the first key the range over
\* the map yields), NoKey when the cache is below its capacity.
Victims ==
    IF Cardinality(DOMAIN entries) >= maxSize /\ DOMAIN entries # {}
    THEN DOMAIN entries
    ELSE {NoKey}

\* A variant of SetEntries: Set stores nothing.
SetEntries_NoStore(key, obj, victim) == entries

\* Set: c.entries after the eviction of victim and c.entries[key] = &cacheEntry{response}.
SetEntries(key, obj, victim) ==
    [k \in ((DOMAIN entries) \ {victim}) \cup {key} |->
        IF k = key THEN obj ELSE entries[k]]

\* A variant of GetReturned: Get returns the entry's own response object.
GetReturned_Alias(key) == entries[key]

\* Get on a hit: the object returned: respCopy := *entry.response; &respCopy.
GetReturned(key) == Len(heap) + 1

\* Get on a hit: the fields of the returned object: the copy with Cached = true.
GetCopy(key) == [heap[entries[key]] EXCEPT !.cached = TRUE]

\* What the cache holds: key -> the fields of its response.
CacheView == [k \in DOMAIN entries |-> heap[entries[k]]]

\* Stats: size, hits, misses (hitRate is hits / (hits + misses)).
Stats == [size |-> Cardinality(DOMAIN entries), hits |-> hits, misses |-> misses]

(***************************************************************************)
(* A caller that uses the cache one call after the other.                  *)
(***************************************************************************)
CacheKeys == {GenerateKey(<<"a">>, <<>>, <<"m">>), GenerateKey(<<"b">>, <<>>, <<"m">>)}

CallerContents == {<<"T">>, <<"U">>}

\* The responses the caller holds a pointer to.
Held == owned \cup {og[1] : og \in fromGet}

CacheInit ==
    /\ heap = <<>>
    /\ entries = NoEntries
    /\ maxSize \in {NewCacheMaxSize(a) : a \in 0..MaxCacheSize}
    /\ hits = 0
    /\ misses = 0

CallerInit ==
    /\ owned = {}
    /\ fromGet = {}
    /\ lastOp = [op |-> "none"]
    /\ cacheOps = 0

\* The caller obtains a response of its own (as from Provider.Complete).
CallerNewResponse(content) ==
    /\ cacheOps < MaxCacheOps
    /\ cacheOps' = cacheOps + 1
    /\ heap' = Append(heap, NewResponse(content))
    /\ owned' = owned \cup {Len(heap) + 1}
    /\ lastOp' = [op |-> "new", obj |-> Len(heap) + 1]
    /\ UNCHANGED <<entries, maxSize, hits, misses, fromGet>>
    /\ UNCHANGED <<concVars, nonCacheVars>>

\* c.Set(key, response) with a response of the caller's own.
CallerSet(key, obj, victim) ==
    /\ cacheOps < MaxCacheOps
    /\ cacheOps' = cacheOps + 1
    /\ obj \in owned
    /\ victim \in Victims
    /\ entries' = SetEntries(key, obj, victim)
    /\ lastOp' = [op |-> "set", key |-> key, obj |-> obj]
    /\ UNCHANGED <<heap, maxSize, hits, misses, owned, fromGet>>
    /\ UNCHANGED <<concVars, nonCacheVars>>

\* c.Get(key), hit: c.hits++, the copy with Cached = true is returned.
CallerGetHit(key) ==
    /\ cacheOps < MaxCacheOps
    /\ cacheOps' = cacheOps + 1
    /\ key \in DOMAIN entries
    /\ hits' = hits + 1
    /\ heap' = HeapWith(GetReturned(key), GetCopy(key))
    /\ fromGet' = fromGet \cup {<<GetReturned(key), key>>}
    /\ lastOp' = [op |-> "get", key |-> key, obj |-> GetReturned(key), found |-> TRUE]
    /\ UNCHANGED <<entries, maxSize, misses, owned>>
    /\ UNCHANGED <<concVars, nonCacheVars>>

\* c.Get(key), miss: c.misses++, (nil, false) is returned.
CallerGetMiss(key) ==
    /\ cacheOps < MaxCacheOps
    /\ cacheOps' = cacheOps + 1
    /\ key \notin DOMAIN entries
    /\ misses' = misses + 1
    /\ lastOp' = [op |-> "get", key |-> key, obj |-> 0, found |-> FALSE]
    /\ UNCHANGED <<heap, entries, maxSize, hits, owned, fromGet>>
    /\ UNCHANGED <<concVars, nonCacheVars>>

\* c.Clear()
CallerClear ==
    /\ cacheOps < MaxCacheOps
    /\ cacheOps' = cacheOps + 1
    /\ entries' = NoEntries
    /\ hits' = 0
    /\ misses' = 0
    /\ lastOp' = [op |-> "clear"]
    /\ UNCHANGED <<heap, maxSize, owned, fromGet>>
    /\ UNCHANGED <<concVars, nonCacheVars>>

\* The caller assigns a field of a response it holds a pointer to.
MutatedFields(rec) ==
    { [rec EXCEPT !.content = <<"X">>],
      [rec EXCEPT !.tokensInput = 0],
      [rec EXCEPT !.cached = ~rec.cached] }

CallerMutate(obj, rec) ==
    /\ cacheOps < MaxCacheOps
    /\ cacheOps' = cacheOps + 1
    /\ obj \in Held
    /\ rec \in MutatedFields(heap[obj])
    /\ rec # heap[obj]
    /\ heap' = [heap EXCEPT ![obj] = rec]
    /\ lastOp' = [op |-> "mutate", obj |-> obj]
    /\ UNCHANGED <<entries, maxSize, hits, misses, owned, fromGet>>
    /\ UNCHANGED <<concVars, nonCacheVars>>

CacheNext ==
    \/ \E content \in CallerContents : CallerNewResponse(content)
    \/ \E key \in CacheKeys, obj \in owned, victim \in Victims :
          CallerSet(key, obj, victim)
    \/ \E key \in CacheKeys : CallerGetHit(key)
    \/ \E key \in CacheKeys : CallerGetMiss(key)
    \/ CallerClear
    \/ \E obj \in Held : \E rec \in MutatedFields(heap[obj]) : CallerMutate(obj, rec)

InitCache == CacheInit /\ CallerInit /\ ConcIdle /\ PoolIdle /\ RLIdle /\ KeyIdle /\ EngineIdle /\ ExtractIdle /\ ProviderIdle /\ RunIdle /\ BatcherIdle /\ ClientIdle /\ PostIdle /\ ValidateIdle /\ CtxIdle /\ DedupIdle /\ WaitIdle /\ TuiIdle

SpecCache == InitCache /\ [][CacheNext]_vars

(***************************************************************************)
(* Goroutines calling Get and Set concurrently.                            *)
(*                                                                         *)
(* Get holds c.mu.RLock(), which any number of goroutines hold together;   *)
(* its c.hits++ and c.misses++ are a load and a store of a plain int. Set  *)
(* holds c.mu.Lock(), alone, for its whole body.                           *)
(***************************************************************************)
Goroutines == 1..MaxGoroutines

ConcInit ==
    /\ readers = 0
    /\ gpc = [g \in Goroutines |-> "idle"]
    /\ gkey = [g \in Goroutines |-> NoKey]
    /\ gfound = [g \in Goroutines |-> FALSE]
    /\ gtmp = [g \in Goroutines |-> 0]
    /\ getsDone = 0
    /\ getsFound = 0

\* Get: c.mu.RLock() (no goroutine is in Set: Set is one step).
GetRLock(g, key) ==
    /\ gpc[g] = "idle"
    /\ cacheOps < MaxCacheOps
    /\ cacheOps' = cacheOps + 1
    /\ readers' = readers + 1
    /\ gkey' = [gkey EXCEPT ![g] = key]
    /\ gpc' = [gpc EXCEPT ![g] = "lookup"]
    /\ UNCHANGED <<gfound, gtmp, getsDone, getsFound>>
    /\ UNCHANGED <<cacheVars, owned, fromGet, lastOp, nonCacheVars>>

\* Get: entry, exists := c.entries[key]
GetLookup(g) ==
    /\ gpc[g] = "lookup"
    /\ gfound' = [gfound EXCEPT ![g] = gkey[g] \in DOMAIN entries]
    /\ gpc' = [gpc EXCEPT ![g] = "load"]
    /\ UNCHANGED <<readers, gkey, gtmp, getsDone, getsFound>>
    /\ UNCHANGED <<cacheVars, callerVars, nonCacheVars>>

\* Get: the load of c.hits++ (exists) or of c.misses++.
GetLoadCounter(g) ==
    /\ gpc[g] = "load"
    /\ gtmp' = [gtmp EXCEPT ![g] = IF gfound[g] THEN hits ELSE misses]
    /\ gpc' = [gpc EXCEPT ![g] = "store"]
    /\ UNCHANGED <<readers, gkey, gfound, getsDone, getsFound>>
    /\ UNCHANGED <<cacheVars, callerVars, nonCacheVars>>

\* Get: the store of c.hits++ or c.misses++, the copy, the return with the
\* deferred c.mu.RUnlock().
GetStoreCounter(g) ==
    /\ gpc[g] = "store"
    /\ hits' = IF gfound[g] THEN gtmp[g] + 1 ELSE hits
    /\ misses' = IF gfound[g] THEN misses ELSE gtmp[g] + 1
    /\ heap' = IF gfound[g] THEN HeapWith(GetReturned(gkey[g]), GetCopy(gkey[g]))
               ELSE heap
    /\ fromGet' = IF gfound[g] THEN fromGet \cup {<<GetReturned(gkey[g]), gkey[g]>>}
                  ELSE fromGet
    /\ readers' = readers - 1
    /\ getsDone' = getsDone + 1
    /\ getsFound' = IF gfound[g] THEN getsFound + 1 ELSE getsFound
    /\ gpc' = [gpc EXCEPT ![g] = "idle"]
    /\ UNCHANGED <<entries, maxSize, owned, lastOp, cacheOps, gkey, gfound, gtmp>>
    /\ UNCHANGED nonCacheVars

\* Set(key, response) with a fresh response: c.mu.Lock() is granted when no
\* goroutine holds the read lock; the body runs under it and it is released.
ConcSet(g, key, content, victim) ==
    /\ gpc[g] = "idle"
    /\ cacheOps < MaxCacheOps
    /\ cacheOps' = cacheOps + 1
    /\ readers = 0
    /\ victim \in Victims
    /\ heap' = Append(heap, NewResponse(content))
    /\ owned' = owned \cup {Len(heap) + 1}
    /\ entries' = SetEntries(key, Len(heap) + 1, victim)
    /\ UNCHANGED <<maxSize, hits, misses, fromGet, lastOp>>
    /\ UNCHANGED <<concVars, nonCacheVars>>

ConcNext ==
    \/ \E g \in Goroutines, key \in CacheKeys : GetRLock(g, key)
    \/ \E g \in Goroutines : GetLookup(g)
    \/ \E g \in Goroutines : GetLoadCounter(g)
    \/ \E g \in Goroutines : GetStoreCounter(g)
    \/ \E g \in Goroutines, key \in CacheKeys, content \in CallerContents :
          \E victim \in Victims : ConcSet(g, key, content, victim)

InitConc == CacheInit /\ CallerInit /\ ConcInit /\ PoolIdle /\ RLIdle /\ KeyIdle /\ EngineIdle /\ ExtractIdle /\ ProviderIdle /\ RunIdle /\ BatcherIdle /\ ClientIdle /\ PostIdle /\ ValidateIdle /\ CtxIdle /\ DedupIdle /\ WaitIdle /\ TuiIdle

SpecCacheConc == InitConc /\ [][ConcNext]_vars

(***************************************************************************)
(* Engine (package generator): extractCodeFromResponse and postProcess.    *)
(***************************************************************************)
MinSet(S) == CHOOSE x \in S : \A y \in S : x <= y
MaxSet(S) == CHOOSE x \in S : \A y \in S : x >= y

\* pat occurs in s at index i.
OccursAt(s, pat, i) ==
    /\ i >= 1
    /\ i + Len(pat) - 1 <= Len(s)
    /\ \A j \in 1..Len(pat) : s[i + j - 1] = pat[j]

\* strings.Contains(s, pat)
Contains(s, pat) == \E i \in 1..(Len(s) + 1) : OccursAt(s, pat, i)

\* strings.TrimSpace
WhiteSpace == {" ", "\n", "\t", "\r"}
TrimSpace(s) ==
    LET keep == {i \in 1..Len(s) : s[i] \notin WhiteSpace}
    IN  IF keep = {} THEN <<>> ELSE SubSeq(s, MinSet(keep), MaxSet(keep))

\* The fence marker: three backquote characters (written "bq").
Fence == <<"bq", "bq", "bq">>

\* The start positions at which the regular expression  open ([\s\S]*?) close
\* matches s: open occurs there and close occurs somewhere after it.
MatchStarts(s, open, close) ==
    {i \in 1..Len(s) :
        /\ OccursAt(s, open, i)
        /\ \E j \in (i + Len(open))..(Len(s) + 1) : OccursAt(s, close, j)}

\* re.FindStringSubmatch(s)[1] for that expression: the leftmost match, and in
\* it the shortest group (the group is lazy).
Submatch(s, open, close) ==
    LET i == MinSet(MatchStarts(s, open, close))
        j == MinSet({k \in (i + Len(open))..(Len(s) + 1) : OccursAt(s, close, k)})
    IN  SubSeq(s, i + Len(open), j - 1)

\* extractCodeFromResponse: the block tagged with the language, else the
\* untagged block, else the whole response; trimmed.
ExtractCodeFromResponse(response, language) ==
    IF MatchStarts(response, Fence \o language \o <<"\n">>, Fence) # {}
    THEN TrimSpace(Submatch(response, Fence \o language \o <<"\n">>, Fence))
    ELSE IF MatchStarts(response, Fence \o <<"\n">>, Fence) # {}
    THEN TrimSpace(Submatch(response, Fence \o <<"\n">>, Fence))
    ELSE TrimSpace(response)

\* The languages as strings, and the headers postProcess prepends (each
\* header line is one symbol; "package " is the text postProcess looks for).
LangGo == <<"g", "o">>
LangPython == <<"p", "y">>
LangRust == <<"r", "s">>
Imports(language, pkg) ==
    CASE language = LangGo -> <<"package ">> \o pkg \o <<"_test", "\n", "import testing, testify", "\n">>
      [] language = LangPython -> <<"import pytest", "\n">>
      [] language = LangRust -> <<"mod tests {", "\n">>
      [] OTHER -> <<>>

\* postProcess
PostProcess(code, language, pkg) ==
    IF language = LangGo /\ Contains(code, <<"package ">>)
    THEN code
    ELSE Imports(language, pkg) \o code

(***************************************************************************)
(* Engine: Generate and generateTestForDefinition.                         *)
(*                                                                         *)
(* One engine, whose Generate calls follow one another. The file is a Go   *)
(* file of package "p"; the adapter's ParseFile, ExtractDefinitions,       *)
(* FormatTestCode, ValidateTests, the file write and Provider.Complete are *)
(* the environment's: each succeeds or fails.                              *)
(***************************************************************************)
Language == LangGo
Package == <<"p">>
ProviderName == <<"anthropic">>

\* The definitions an adapter may return. A list may hold one twice: two
\* methods of the same name and body on different types.
Definitions ==
    { [name |-> "f", body |-> <<"a">>],
      [name |-> "g", body |-> <<"b">>] }

\* The lists of definitions ExtractDefinitions may return.
DefinitionLists == SeqsUpTo(Definitions, MaxPairs)

\* config.TestTypes
TestTypeLists == {<<"unit">>, <<"unit", "edge-cases">>}

\* adapter.GetPromptTemplate(testType): the prompt common to all types, then
\* the part of the type; any type but table-driven, edge-cases and negative
\* gets the part of "unit".
TemplateTail(testType) ==
    IF testType \in {"table-driven", "edge-cases", "negative"}
    THEN <<testType>>
    ELSE <<"unit">>

\* fmt.Sprintf(promptTemplate, def.Body, packageName)
RenderPrompt(testType, body, pkg) ==
    <<"Function:">> \o body \o <<"Package:">> \o pkg \o TemplateTail(testType)

\* The contents a provider may answer with.
FencedGo == Fence \o LangGo \o <<"\n", "T", "\n">> \o Fence
ProviderContents == {FencedGo, <<"T">>, <<>>}

EngineInit ==
    /\ ecfg \in [dryRun : BOOLEAN, validate : BOOLEAN, testTypes : TestTypeLists]
    /\ providerCalls = 0
    /\ epc = "idle"
    /\ einput = [kind |-> "none", defs |-> <<>>, writeFailed |-> FALSE,
                 validationFailed |-> FALSE]
    /\ edi = 0
    /\ eti = 0
    /\ allTests = <<>>
    /\ functionsTested = <<>>
    /\ eresult = [returned |-> "none"]
    /\ written = <<>>
    /\ validations = 0
    /\ testFile = Nil
    /\ elog = <<>>
    /\ ecall = 0
    /\ ctxExpired = FALSE

\* NewEngine: cache: llm.NewCache(10000)
EngineCacheInit ==
    /\ heap = <<>>
    /\ entries = NoEntries
    /\ maxSize = NewCacheMaxSize(DefaultCacheSize)
    /\ hits = 0
    /\ misses = 0

\* A variant of EmptyResult: the test path is set before the loop.
EmptyResult_WithPath ==
    [returned |-> "result", testCode |-> <<>>, formatted |-> FALSE,
     functionsTested |-> <<>>, testCount |-> 0, testPath |-> TRUE,
     error |-> "none"]

\* The GenerationResult Generate starts from: only SourceFile is set.
EmptyResult ==
    [returned |-> "result", testCode |-> <<>>, formatted |-> FALSE,
     functionsTested |-> <<>>, testCount |-> 0, testPath |-> FALSE,
     error |-> "none"]

\* return nil, err
ErrorReturn(what) == [returned |-> what]

\* Generate up to the loop: os.ReadFile, ParseFile, ExtractDefinitions, the
\* return on zero definitions. kind: "unreadable", "parsefail", "extractfail", "ok".
GenBegin(kind, defs) ==
    /\ epc \in {"idle", "returned"}
    /\ Len(elog) + Len(defs) * Len(ecfg.testTypes) <= MaxPairs
    /\ ecall < MaxGenCalls
    /\ kind # "ok" => defs = <<>>
    /\ ecall' = ecall + 1
    /\ einput' = [kind |-> kind, defs |-> defs, writeFailed |-> FALSE,
                  validationFailed |-> FALSE]
    /\ allTests' = <<>>
    /\ functionsTested' = <<>>
    /\ written' = <<>>
    /\ validations' = 0
    /\ edi' = 1
    /\ eti' = 1
    /\ IF kind # "ok"
       THEN epc' = "returned" /\ eresult' = ErrorReturn(kind)
       ELSE IF defs = <<>>
       THEN epc' = "returned" /\ eresult' = EmptyResult
       ELSE epc' = "pairs" /\ eresult' = [returned |-> "none"]
    /\ UNCHANGED <<ecfg, providerCalls, testFile, elog>>
    /\ ctxExpired' = FALSE
    /\ UNCHANGED <<cacheVars, nonEngineVars>>

CurDef == einput.defs[edi]
CurType == ecfg.testTypes[eti]
CurPrompt == RenderPrompt(CurType, CurDef.body, Package)
\* cacheKey := e.cache.GenerateKey(prompt, "", e.provider.Name())
CurKey == GenerateKey(CurPrompt, <<>>, ProviderName)

\* The loop indexes after the current pair; past the last definition the loop ends.
NextPair ==
    /\ eti' = IF eti < Len(ecfg.testTypes) THEN eti + 1 ELSE 1
    /\ edi' = IF eti < Len(ecfg.testTypes) THEN edi ELSE edi + 1
    /\ epc' = IF eti >= Len(ecfg.testTypes) /\ edi >= Len(einput.defs)
              THEN "finish" ELSE "pairs"

\* Generate, after generateTestForDefinition returned testCode with a nil error.
Collect(testCode) ==
    /\ allTests' = IF testCode # <<>>
                   THEN allTests \o testCode \o <<"\n", "\n">> ELSE allTests
    /\ functionsTested' = IF testCode # <<>>
                          THEN Append(functionsTested, CurDef.name)
                          ELSE functionsTested

LogEntry(outcome, content, code, ncalls, nhits) ==
    [call |-> ecall, def |-> edi, type |-> eti, name |-> CurDef.name,
     key |-> CurKey, outcome |-> outcome, content |-> content, code |-> code,
     calls |-> ncalls, hits |-> nhits]

\* generateTestForDefinition on a cache hit: what it returns for the cached response.
HitCode(cached) == cached.content

\* One pair of the loop, cache hit: return cached.Content, nil.
GenPairHit ==
    /\ epc = "pairs"
    /\ CurKey \in DOMAIN entries
    /\ hits' = hits + 1
    /\ heap' = HeapWith(GetReturned(CurKey), GetCopy(CurKey))
    /\ Collect(HitCode(GetCopy(CurKey)))
    /\ elog' = Append(elog, LogEntry("hit", GetCopy(CurKey).content,
                                     HitCode(GetCopy(CurKey)), providerCalls, hits + 1))
    /\ NextPair
    /\ UNCHANGED <<entries, maxSize, misses>>
    /\ UNCHANGED <<ecfg, providerCalls, einput, eresult, written, validations,
                   testFile, ecall>>
    /\ UNCHANGED <<ctxVars, nonEngineVars>>

\* A variant of GenPairFail: the failure ends the loop (break for continue).
GenPairFail_Abort ==
    /\ epc = "pairs"
    /\ CurKey \notin DOMAIN entries
    /\ misses' = misses + 1
    /\ providerCalls' = providerCalls + 1
    /\ elog' = Append(elog, LogEntry("fail", <<>>, <<>>, providerCalls + 1, hits))
    /\ epc' = "finish"
    /\ UNCHANGED <<heap, entries, maxSize, hits>>
    /\ UNCHANGED <<ecfg, einput, edi, eti, allTests, functionsTested, eresult,
                   written, validations, testFile, ecall>>
    /\ UNCHANGED <<ctxVars, nonEngineVars>>

\* A variant of GenPairFail: the failed call is made again for the same pair.
GenPairFail_Retry ==
    /\ epc = "pairs"
    /\ CurKey \notin DOMAIN entries
    /\ misses' = misses + 1
    /\ providerCalls' = providerCalls + 1
    /\ elog' = Append(elog, LogEntry("fail", <<>>, <<>>, providerCalls + 1, hits))
    /\ UNCHANGED <<heap, entries, maxSize, hits>>
    /\ UNCHANGED <<ecfg, einput, edi, eti, epc, allTests, functionsTested,
                   eresult, written, validations, testFile, ecall>>
    /\ UNCHANGED <<ctxVars, nonEngineVars>>

\* One pair of the loop, cache miss, Provider.Complete fails: the error is
\* logged and the loop continues.
GenPairFail ==
    /\ epc = "pairs"
    /\ CurKey \notin DOMAIN entries
    /\ misses' = misses + 1
    /\ providerCalls' = providerCalls + 1
    /\ elog' = Append(elog, LogEntry("fail", <<>>, <<>>, providerCalls + 1, hits))
    /\ NextPair
    /\ UNCHANGED <<heap, entries, maxSize, hits>>
    /\ UNCHANGED <<ecfg, einput, allTests, functionsTested, eresult, written,
                   validations, testFile, ecall>>
    /\ UNCHANGED <<ctxVars, nonEngineVars>>

\* One pair of the loop, cache miss, the 120 seconds of the context that
\* Generate created at its start run out while Provider.Complete is waiting
\* for the answer: the call fails, the error is logged, the loop continues.
GenPairTimeout ==
    /\ epc = "pairs"
    /\ CurKey \notin DOMAIN entries
    /\ ~ctxExpired
    /\ ctxExpired' = TRUE
    /\ misses' = misses + 1
    /\ providerCalls' = providerCalls + 1
    /\ elog' = Append(elog, LogEntry("fail", <<>>, <<>>, providerCalls + 1, hits))
    /\ NextPair
    /\ UNCHANGED <<heap, entries, maxSize, hits>>
    /\ UNCHANGED <<ecfg, einput, allTests, functionsTested, eresult, written,
                   validations, testFile, ecall>>
    /\ UNCHANGED nonEngineVars

\* One pair of the loop, cache miss, Provider.Complete answers with content:
\* e.cache.Set(cacheKey, resp), then the extracted code is returned.
\* http.Client.Do fails at once on a context whose deadline has passed, so an
\* answer needs a context that is still live.
GenPairMiss(content, victim) ==
    /\ epc = "pairs"
    /\ CurKey \notin DOMAIN entries
    /\ ~ctxExpired
    /\ victim \in Victims
    /\ misses' = misses + 1
    /\ providerCalls' = providerCalls + 1
    /\ heap' = Append(heap, NewResponse(content))
    /\ entries' = SetEntries(CurKey, Len(heap) + 1, victim)
    /\ Collect(ExtractCodeFromResponse(content, Language))
    /\ elog' = Append(elog, LogEntry("ok", content,
                                     ExtractCodeFromResponse(content, Language),
                                     providerCalls + 1, hits))
    /\ NextPair
    /\ UNCHANGED <<maxSize, hits>>
    /\ UNCHANGED <<ecfg, einput, eresult, written, validations, testFile, ecall>>
    /\ UNCHANGED <<ctxVars, nonEngineVars>>

\* adapter.ValidateTests(testCode, testPath) of the Go adapter: it writes the
\* code to testPath again, removes testPath when it returns (defer
\* os.Remove), and reports whether go build succeeded.  "writefail": its own
\* os.WriteFile fails and it returns before the removal is deferred.
ValidateOutcomes == {"ok", "writefail", "compilefail"}

ValidateTests(testCode, validation) ==
    [error |-> validation # "ok",
     file |-> IF validation = "writefail" THEN Ptr(testCode) ELSE Nil]

\* if !e.config.DryRun { e.writeTestFile(...) }
WritesTestFile(cfg) == ~cfg.dryRun

Validates_IgnoreDryRun(cfg) == cfg.validate

\* if e.config.Validate && !e.config.DryRun { adapter.ValidateTests(...) }
Validates(cfg) == cfg.validate /\ ~cfg.dryRun

\* Generate after the loop: the return on no code, postProcess, FormatTestCode,
\* the test path, the write unless DryRun, the validation if Validate and not DryRun.
GenFinish(formatOk, writeOk, validation) ==
    /\ epc = "finish"
    /\ epc' = "returned"
    /\ LET finalCode == PostProcess(allTests, Language, Package)
           result == [returned |-> "result", testCode |-> finalCode,
                      formatted |-> formatOk,
                      functionsTested |-> functionsTested,
                      testCount |-> Len(functionsTested), testPath |-> TRUE,
                      error |-> "none"]
       IN  IF allTests = <<>>
           THEN /\ eresult' = EmptyResult
                /\ UNCHANGED <<written, validations, testFile, einput>>
           ELSE IF WritesTestFile(ecfg) /\ ~writeOk
           THEN /\ eresult' = ErrorReturn("writefail")
                /\ einput' = [einput EXCEPT !.writeFailed = TRUE]
                /\ UNCHANGED <<written, validations, testFile>>
           ELSE IF Validates(ecfg)
           THEN /\ written' = IF WritesTestFile(ecfg) THEN finalCode ELSE written
                /\ validations' = validations + 1
                /\ testFile' = ValidateTests(finalCode, validation).file
                /\ einput' = [einput EXCEPT !.validationFailed =
                                  ValidateTests(finalCode, validation).error]
                /\ eresult' = IF ValidateTests(finalCode, validation).error
                              THEN [result EXCEPT !.error = "validation"]
                              ELSE result
           ELSE /\ written' = IF WritesTestFile(ecfg) THEN finalCode ELSE written
                /\ testFile' = IF WritesTestFile(ecfg) THEN Ptr(finalCode) ELSE testFile
                /\ eresult' = result
                /\ UNCHANGED <<validations, einput>>
    /\ UNCHANGED <<ecfg, providerCalls, edi, eti, allTests, functionsTested,
                   elog, ecall>>
    /\ UNCHANGED <<cacheVars, ctxVars, nonEngineVars>>

EngineNext ==
    \/ \E kind \in {"unreadable", "parsefail", "extractfail", "ok"} :
          \E defs \in DefinitionLists : GenBegin(kind, defs)
    \/ GenPairHit
    \/ GenPairFail
    \/ GenPairTimeout
    \/ \E content \in ProviderContents : \E victim \in Victims :
          GenPairMiss(content, victim)
    \/ \E formatOk, writeOk \in BOOLEAN : \E validation \in ValidateOutcomes :
          GenFinish(formatOk, writeOk, validation)

InitEngine == EngineInit /\ EngineCacheInit /\ CallerIdle /\ ConcIdle /\ PoolIdle /\ RLIdle /\ KeyIdle /\ ExtractIdle /\ ProviderIdle /\ RunIdle /\ BatcherIdle /\ ClientIdle /\ PostIdle /\ ValidateIdle /\ DedupIdle /\ WaitIdle /\ TuiIdle

SpecEngine == InitEngine /\ [][EngineNext]_vars

(***************************************************************************)
(* extractCodeFromResponse called on a response text.  The responses are   *)
(* texts of up to MaxSegments segments: a word, a line break, or a fenced  *)
(* block (tagged go, tagged py, or untagged).                              *)
(***************************************************************************)
Block(tag, body) == Fence \o tag \o <<"\n">> \o body \o <<"\n">> \o Fence

Segments ==
    {<<"x">>, <<"\n">>,
     Block(LangGo, <<"A">>), Block(LangPython, <<"B">>), Block(<<>>, <<"C">>)}

RECURSIVE Flatten(_)
Flatten(ss) == IF ss = <<>> THEN <<>> ELSE Head(ss) \o Flatten(Tail(ss))

Responses == {Flatten(ss) : ss \in SeqsUpTo(Segments, MaxSegments)}

ExtractInit ==
    /\ xresponse \in Responses
    /\ xlang \in {LangGo, LangPython}
    /\ xcode = <<>>
    /\ xpc = "call"

ExtractCall ==
    /\ xpc = "call"
    /\ xcode' = ExtractCodeFromResponse(xresponse, xlang)
    /\ xpc' = "done"
    /\ UNCHANGED <<xresponse, xlang>>
    /\ UNCHANGED nonExtractVars

ExtractNext == ExtractCall

InitExtract == ExtractInit /\ PoolIdle /\ RLIdle /\ CacheIdle /\ CallerIdle /\ ConcIdle /\ KeyIdle /\ EngineIdle /\ ProviderIdle /\ RunIdle /\ BatcherIdle /\ ClientIdle /\ PostIdle /\ ValidateIdle /\ CtxIdle /\ DedupIdle /\ WaitIdle /\ TuiIdle

SpecExtract == InitExtract /\ [][ExtractNext]_vars

(***************************************************************************)
(* OpenAIProvider (package llm): BatchComplete runs one goroutine per      *)
(* request, each calls Complete; GetUsage is called from another           *)
(* goroutine.  The server's answer to a request is part of the input.      *)
(* EstimatedCostUSD is counted in millionths of a dollar.                  *)
(***************************************************************************)
Answers ==
    {[ok |-> FALSE, tin |-> 0, tout |-> 0],
     [ok |-> TRUE, tin |-> 1, tout |-> 2],
     [ok |-> TRUE, tin |-> 2, tout |-> 1]}

RequestLists ==
    UNION {{[i \in 1..n |-> [prompt |-> i, answer |-> a[i]]] : a \in [1..n -> Answers]}
           : n \in 0..MaxReqs}

NoUsage ==
    [TotalRequests |-> 0, TotalTokensIn |-> 0, TotalTokensOut |-> 0,
     EstimatedCostUSD |-> 0]

\* The CompletionResponse that Complete builds from the answer to r.
ResponseTo(r) ==
    [Content |-> r.prompt, TokensInput |-> r.answer.tin,
     TokensOutput |-> r.answer.tout]

ProviderInit ==
    /\ reqs \in RequestLists
    /\ responses = [i \in 1..Len(reqs) |-> Nil]
    /\ errChan = <<>>
    /\ bi = 1
    /\ bpc = "spawn"
    /\ bret = <<>>
    /\ ppc = [i \in 1..Len(reqs) |-> "new"]
    /\ pmu = 0
    /\ usage = NoUsage
    /\ upc = "idle"
    /\ snapshots = <<>>

\* BatchComplete: for i, req := range reqs { wg.Add(1); go func(...) }
BatchSpawn ==
    /\ bpc = "spawn"
    /\ bi <= Len(reqs)
    /\ ppc' = [ppc EXCEPT ![bi] = "run"]
    /\ bi' = bi + 1
    /\ UNCHANGED <<reqs, responses, errChan, bpc, bret, pmu, usage, upc, snapshots>>
    /\ UNCHANGED nonProviderVars

BatchSpawned ==
    /\ bpc = "spawn"
    /\ bi > Len(reqs)
    /\ bpc' = "wait"
    /\ UNCHANGED <<reqs, responses, errChan, bi, bret, ppc, pmu, usage, upc, snapshots>>
    /\ UNCHANGED nonProviderVars

\* Complete returns (nil, err): the closure sends on errChan and returns.
CompleteFail(g) ==
    /\ ppc[g] = "run"
    /\ ~reqs[g].answer.ok
    /\ errChan' = Append(errChan, g - 1)
    /\ ppc' = [ppc EXCEPT ![g] = "done"]
    /\ UNCHANGED <<reqs, responses, bi, bpc, bret, pmu, usage, upc, snapshots>>
    /\ UNCHANGED nonProviderVars

\* Complete got a good answer: p.mu.Lock()
CompleteLock(g) ==
    /\ ppc[g] = "run"
    /\ reqs[g].answer.ok
    /\ pmu = 0
    /\ pmu' = g
    /\ ppc' = [ppc EXCEPT ![g] = "locked"]
    /\ UNCHANGED <<reqs, responses, errChan, bi, bpc, bret, usage, upc, snapshots>>
    /\ UNCHANGED nonProviderVars

\* p.usage.TotalRequests++
CompleteCountRequest(g) ==
    /\ ppc[g] = "locked"
    /\ usage' = [usage EXCEPT !.TotalRequests = @ + 1]
    /\ ppc' = [ppc EXCEPT ![g] = "counted"]
    /\ UNCHANGED <<reqs, responses, errChan, bi, bpc, bret, pmu, upc, snapshots>>
    /\ UNCHANGED nonProviderVars

CompleteCountTokens_Skip(g) ==
    /\ ppc[g] = "counted"
    /\ ppc' = [ppc EXCEPT ![g] = "tokens"]
    /\ UNCHANGED <<reqs, responses, errChan, bi, bpc, bret, pmu, usage, upc, snapshots>>
    /\ UNCHANGED nonProviderVars

\* p.usage.TotalTokensIn += ...; p.usage.TotalTokensOut += ...; the cost
CompleteCountTokens(g) ==
    /\ ppc[g] = "counted"
    /\ usage' = [usage EXCEPT
                    !.TotalTokensIn = @ + reqs[g].answer.tin,
                    !.TotalTokensOut = @ + reqs[g].answer.tout,
                    !.EstimatedCostUSD =
                        @ + reqs[g].answer.tin * 10 + reqs[g].answer.tout * 30]
    /\ ppc' = [ppc EXCEPT ![g] = "tokens"]
    /\ UNCHANGED <<reqs, responses, errChan, bi, bpc, bret, pmu, upc, snapshots>>
    /\ UNCHANGED nonProviderVars

\* p.mu.Unlock(); return &CompletionResponse{...}, nil
CompleteUnlock(g) ==
    /\ ppc[g] = "tokens"
    /\ pmu' = 0
    /\ ppc' = [ppc EXCEPT ![g] = "returned"]
    /\ UNCHANGED <<reqs, responses, errChan, bi, bpc, bret, usage, upc, snapshots>>
    /\ UNCHANGED nonProviderVars

GoStoreResponse_FirstSlot(g) ==
    /\ ppc[g] = "returned"
    /\ responses' = [responses EXCEPT ![1] = Ptr(ResponseTo(reqs[g]))]
    /\ ppc' = [ppc EXCEPT ![g] = "done"]
    /\ UNCHANGED <<reqs, errChan, bi, bpc, bret, pmu, usage, upc, snapshots>>
    /\ UNCHANGED nonProviderVars

\* responses[idx] = resp; the deferred wg.Done()
GoStoreResponse(g) ==
    /\ ppc[g] = "returned"
    /\ responses' = [responses EXCEPT ![g] = Ptr(ResponseTo(reqs[g]))]
    /\ ppc' = [ppc EXCEPT ![g] = "done"]
    /\ UNCHANGED <<reqs, errChan, bi, bpc, bret, pmu, usage, upc, snapshots>>
    /\ UNCHANGED nonProviderVars

\* wg.Wait(); close(errChan); the errors are collected; return
BatchReturn ==
    /\ bpc = "wait"
    /\ \A g \in 1..Len(reqs) : ppc[g] = "done"
    /\ bret' = [responses |-> responses,
                err |-> IF Len(errChan) > 0
                        THEN Ptr([errors |-> Len(errChan), first |-> errChan[1]])
                        ELSE Nil]
    /\ errChan' = <<>>
    /\ bpc' = "returned"
    /\ UNCHANGED <<reqs, responses, bi, ppc, pmu, usage, upc, snapshots>>
    /\ UNCHANGED nonProviderVars

\* The holder of p.mu while GetUsage runs.
GetUsageHolder == 0 - 1

\* GetUsage: p.mu.Lock()
UsageLock ==
    /\ upc = "idle"
    /\ Len(snapshots) < MaxSnapshots
    /\ pmu = 0
    /\ pmu' = GetUsageHolder
    /\ upc' = "locked"
    /\ UNCHANGED <<reqs, responses, errChan, bi, bpc, bret, ppc, usage, snapshots>>
    /\ UNCHANGED nonProviderVars

\* usage := p.usage; return &usage; the deferred p.mu.Unlock()
UsageCopy ==
    /\ upc = "locked"
    /\ snapshots' = Append(snapshots, usage)
    /\ pmu' = 0
    /\ upc' = "idle"
    /\ UNCHANGED <<reqs, responses, errChan, bi, bpc, bret, ppc, usage>>
    /\ UNCHANGED nonProviderVars

ProviderNext ==
    \/ BatchSpawn
    \/ BatchSpawned
    \/ \E g \in 1..Len(reqs) : CompleteFail(g)
    \/ \E g \in 1..Len(reqs) : CompleteLock(g)
    \/ \E g \in 1..Len(reqs) : CompleteCountRequest(g)
    \/ \E g \in 1..Len(reqs) : CompleteCountTokens(g)
    \/ \E g \in 1..Len(reqs) : CompleteUnlock(g)
    \/ \E g \in 1..Len(reqs) : GoStoreResponse(g)
    \/ BatchReturn
    \/ UsageLock
    \/ UsageCopy

InitProvider == ProviderInit /\ PoolIdle /\ RLIdle /\ CacheIdle /\ CallerIdle /\ ConcIdle /\ KeyIdle /\ EngineIdle /\ ExtractIdle /\ RunIdle /\ BatcherIdle /\ ClientIdle /\ PostIdle /\ ValidateIdle /\ CtxIdle /\ DedupIdle /\ WaitIdle /\ TuiIdle

SpecProvider == InitProvider /\ [][ProviderNext]_vars

(***************************************************************************)
(* runGenerate (package cmd): the generate command.  What happens to each  *)
(* scanned file is part of the input: it has no adapter, Generate returns  *)
(* an error, or Generate returns a result (with code, without code, or     *)
(* with code and the validation error set).                                *)
(***************************************************************************)
RunFlags ==
    [genDryRun : BOOLEAN, genValidate : BOOLEAN, genInteractive : BOOLEAN,
     json : BOOLEAN, quiet : BOOLEAN]

\* Generate sets the validation error only with Validate and without DryRun.
FileOutcomes(flags) ==
    {"noadapter", "generr", "ok", "nocode"} \cup
    (IF flags.genValidate /\ ~flags.genDryRun THEN {"validationfailed"} ELSE {})

\* The GenerationResult processFiles appends for a file.
ResultFor(outcome) ==
    [outcome |-> outcome,
     Error |-> outcome \in {"noadapter", "generr", "validationfailed"},
     TestCode |-> outcome \in {"ok", "validationfailed"}]

RunInit ==
    /\ gflags \in RunFlags
    /\ sourceFiles \in SeqsUpTo(FileOutcomes(gflags), MaxRunFiles)
    /\ gresults = <<>>
    /\ gi = 1
    /\ runpc = "start"
    /\ gret = "none"

\* runGenerate up to processFiles: the checks of the path, of the API key,
\* filepath.Abs, the scan, the return on no source file.
RunBegin(pre) ==
    /\ runpc = "start"
    /\ pre = "nokey" => ~gflags.quiet /\ ~gflags.json
    /\ IF pre # "ok"
       THEN runpc' = "returned" /\ gret' = pre
       ELSE IF sourceFiles = <<>>
       THEN runpc' = "returned" /\ gret' = "nil"
       ELSE runpc' = "process" /\ gret' = gret
    /\ UNCHANGED <<gflags, sourceFiles, gresults, gi>>
    /\ UNCHANGED nonRunVars

\* processFiles: one iteration of the loop.
ProcessFile ==
    /\ runpc = "process"
    /\ gi <= Len(sourceFiles)
    /\ gresults' = Append(gresults, ResultFor(sourceFiles[gi]))
    /\ gi' = gi + 1
    /\ UNCHANGED <<gflags, sourceFiles, runpc, gret>>
    /\ UNCHANGED nonRunVars

ProcessFilesReturn ==
    /\ runpc = "process"
    /\ gi > Len(sourceFiles)
    /\ runpc' = "output"
    /\ UNCHANGED <<gflags, sourceFiles, gresults, gi, gret>>
    /\ UNCHANGED nonRunVars

\* errorCount of the summary: the results whose Error is set.
ErrorCount == Cardinality({i \in 1..Len(gresults) : gresults[i].Error})

\* runGenerate after processFiles: the interactive view, or the output, the
\* summary and the return value.
RunFinish(uiOk, outputOk) ==
    /\ runpc = "output"
    /\ runpc' = "returned"
    /\ gret' = IF gflags.genInteractive /\ ~gflags.genDryRun /\ ~gflags.json
               THEN (IF uiOk THEN "nil" ELSE "uierror")
               ELSE IF ~outputOk THEN "outputerror"
               ELSE IF ErrorCount > 0 THEN "failed"
               ELSE "nil"
    /\ UNCHANGED <<gflags, sourceFiles, gresults, gi>>
    /\ UNCHANGED nonRunVars

RunNext ==
    \/ \E pre \in {"nopath", "nokey", "abserror", "scanerror", "ok"} : RunBegin(pre)
    \/ ProcessFile
    \/ ProcessFilesReturn
    \/ \E uiOk, outputOk \in BOOLEAN : RunFinish(uiOk, outputOk)

InitRun == RunInit /\ PoolIdle /\ RLIdle /\ CacheIdle /\ CallerIdle /\ ConcIdle /\ KeyIdle /\ EngineIdle /\ ExtractIdle /\ ProviderIdle /\ BatcherIdle /\ ClientIdle /\ PostIdle /\ ValidateIdle /\ CtxIdle /\ DedupIdle /\ WaitIdle /\ TuiIdle

SpecRun == InitRun /\ [][RunNext]_vars

(***************************************************************************)
(* Batcher (package llm): Add and Flush, called from up to MaxBatchCallers *)
(* goroutines.  Each critical section under b.mu is one step.  Requests    *)
(* are numbered in the order they are added.                               *)
(***************************************************************************)
BatchCallers == 1..MaxBatchCallers

\* NewBatcher: batchSize <= 0 becomes 5.
NewBatcherSize(arg) == IF arg <= 0 THEN DefaultBatchSize ELSE arg

\* What Provider.BatchComplete returns for reqs: a slice with a response per
\* request (nil where it failed) and an error if one failed.
BatchAnswers(rs) ==
    {[responses |-> Ptr([i \in 1..Len(rs) |-> Ptr(rs[i])]), err |-> Nil],
     [responses |-> Ptr([i \in 1..Len(rs) |-> IF i = 1 THEN Nil ELSE Ptr(rs[i])]),
      err |-> Ptr("batch had errors")]}

\* return nil, nil
NothingReturned == [responses |-> Nil, err |-> Nil]

NoFlush == [n |-> 0]
NoAdd == [n |-> 0]

BatcherInit ==
    /\ batchSize \in {NewBatcherSize(a) : a \in 0..MaxBatchSize}
    /\ pending = <<>>
    /\ nextReq = 1
    /\ flushCalls = 0
    /\ tpc = [g \in BatchCallers |-> "idle"]
    /\ tadd = [g \in BatchCallers |-> 0]
    /\ treqs = [g \in BatchCallers |-> [reqs |-> <<>>, left |-> <<>>]]
    /\ batchCalls = <<>>
    /\ lastFlush = NoFlush
    /\ lastAdd = NoAdd
    /\ seqOnly = TRUE

OthersIdle(g) == \A h \in BatchCallers \ {g} : tpc[h] = "idle"

ShouldFlush_Greater(n, size) == n > size

\* Add: shouldFlush := len(b.pending) >= b.batchSize
ShouldFlush(n, size) == n >= size

\* Add: the critical section (append, shouldFlush); without a flush Add returns.
AddAppend(g) ==
    /\ tpc[g] = "idle"
    /\ nextReq <= MaxAdds
    /\ pending' = Append(pending, nextReq)
    /\ nextReq' = nextReq + 1
    /\ seqOnly' = (seqOnly /\ OthersIdle(g))
    /\ IF ShouldFlush(Len(pending) + 1, batchSize)
       THEN /\ tpc' = [tpc EXCEPT ![g] = "addflush"]
            /\ tadd' = [tadd EXCEPT ![g] = nextReq]
            /\ lastAdd' = lastAdd
       ELSE /\ tpc' = tpc
            /\ tadd' = tadd
            /\ lastAdd' = [n |-> nextReq, flushed |-> FALSE, sent |-> 0,
                           pendingAfter |-> Len(pending) + 1, discarded |-> {}]
    /\ UNCHANGED <<batchSize, flushCalls, treqs, batchCalls, lastFlush>>
    /\ UNCHANGED nonBatcherVars

FlushTake_KeepPending(rs) == rs

\* A variant of FlushTake: the last request taken also stays pending.
FlushTake_KeepLast(rs) == IF rs = <<>> THEN <<>> ELSE <<rs[Len(rs)]>>

\* Flush: b.pending = make([]CompletionRequest, 0, b.batchSize)
FlushTake(rs) == <<>>

\* Flush: the critical section (reqs := b.pending; b.pending = empty) and the
\* return of nil, nil when reqs is empty.  Called by Add (the goroutine is at
\* "addflush") or by a caller of the Batcher (the goroutine is idle).
FlushSwap(g) ==
    /\ tpc[g] \in {"idle", "addflush"}
    /\ tpc[g] = "idle" => flushCalls < MaxFlushCalls
    /\ flushCalls' = IF tpc[g] = "idle" THEN flushCalls + 1 ELSE flushCalls
    /\ seqOnly' = (seqOnly /\ tpc[g] = "addflush")
    /\ treqs' = [treqs EXCEPT ![g] = [reqs |-> pending, left |-> FlushTake(pending)]]
    /\ pending' = FlushTake(pending)
    /\ IF pending = <<>>
       THEN /\ tpc' = [tpc EXCEPT ![g] = "idle"]
            /\ tadd' = [tadd EXCEPT ![g] = 0]
            /\ lastFlush' =
                  [n |-> lastFlush.n + 1, queued |-> pending,
                   left |-> FlushTake(pending), calls |-> 0, sent |-> <<>>,
                   ret |-> NothingReturned, answer |-> NothingReturned]
            /\ lastAdd' = IF tpc[g] = "addflush"
                          THEN [n |-> tadd[g], flushed |-> TRUE, sent |-> 0,
                                pendingAfter |-> 0, discarded |-> {}]
                          ELSE lastAdd
       ELSE /\ tpc' = [tpc EXCEPT ![g] = "flushcall"]
            /\ UNCHANGED <<tadd, lastFlush, lastAdd>>
    /\ UNCHANGED <<batchSize, nextReq, batchCalls>>
    /\ UNCHANGED nonBatcherVars

\* The requests of rs for which the answer holds a response.
Answered(rs, answer) ==
    {rs[i] : i \in {j \in 1..Len(rs) : \A resp \in answer.responses : resp[j] # Nil}}

\* Flush: return b.provider.BatchComplete(ctx, reqs).  A caller of Flush gets
\* the responses; Add calls b.Flush(context.Background()) as a statement: what
\* Flush returns to Add is discarded, and Add itself returns nothing.
FlushBatchComplete(g, answer) ==
    /\ tpc[g] = "flushcall"
    /\ answer \in BatchAnswers(treqs[g].reqs)
    /\ batchCalls' = Append(batchCalls, treqs[g].reqs)
    /\ lastFlush' =
          [n |-> lastFlush.n + 1, queued |-> treqs[g].reqs, left |-> treqs[g].left,
           calls |-> 1, sent |-> treqs[g].reqs, ret |-> answer, answer |-> answer]
    /\ lastAdd' = IF tadd[g] > 0
                  THEN [n |-> tadd[g], flushed |-> TRUE, sent |-> Len(treqs[g].reqs),
                        pendingAfter |-> Len(pending),
                        discarded |-> Answered(treqs[g].reqs, answer)]
                  ELSE lastAdd
    /\ tpc' = [tpc EXCEPT ![g] = "idle"]
    /\ tadd' = [tadd EXCEPT ![g] = 0]
    /\ UNCHANGED <<batchSize, pending, nextReq, flushCalls, treqs, seqOnly>>
    /\ UNCHANGED nonBatcherVars

BatcherNext ==
    \/ \E g \in BatchCallers : AddAppend(g)
    \/ \E g \in BatchCallers : FlushSwap(g)
    \/ \E g \in BatchCallers :
          \E answer \in BatchAnswers(treqs[g].reqs) : FlushBatchComplete(g, answer)

InitBatcher == BatcherInit /\ PoolIdle /\ RLIdle /\ CacheIdle /\ CallerIdle /\ ConcIdle /\ KeyIdle /\ EngineIdle /\ ExtractIdle /\ ProviderIdle /\ RunIdle /\ ClientIdle /\ PostIdle /\ ValidateIdle /\ CtxIdle /\ DedupIdle /\ WaitIdle /\ TuiIdle

SpecBatcher == InitBatcher /\ [][BatcherNext]_vars

(***************************************************************************)
(* One provider object: Configure and Complete of the OpenAI, Anthropic    *)
(* and Gemini providers (openai.go, part_008, part_007), called one after  *)
(* another.  Strings are kept as strings; "" is the empty string.  Costs   *)
(* are counted in thousandths of a millionth of a dollar.                  *)
(***************************************************************************)
Backends == {"openai", "anthropic", "gemini"}

\* The environment: the backend's own variable (OPENAI_API_KEY,
\* ANTHROPIC_API_KEY, GEMINI_API_KEY) and GOOGLE_API_KEY.
Environments == [primary : {"", "envkey"}, google : {"", "googlekey"}]

\* The zero value of ProviderConfig.
ZeroConfig == [APIKey |-> "", Model |-> "", MaxTokens |-> 0, BaseURL |-> ""]

Configs ==
    [APIKey : {"", "argkey"}, Model : {"", "gemini-1.5-flash"},
     MaxTokens : {0, 100}, BaseURL : {"", "http://proxy"}]

\* The key Configure ends up with: the argument's, else the environment's.
ResolveKey(backend, env, config) ==
    IF config.APIKey # "" THEN config.APIKey
    ELSE IF env.primary # "" THEN env.primary
    ELSE IF backend = "gemini" THEN env.google
    ELSE ""

DefaultModel(backend) ==
    CASE backend = "openai" -> "gpt-4-turbo-preview"
      [] backend = "anthropic" -> "claude-3-5-sonnet-20241022"
      [] OTHER -> "gemini-1.5-pro"

DefaultMaxTokens(backend) == IF backend = "gemini" THEN 8192 ELSE 4096

DefaultBaseURL(backend) ==
    CASE backend = "openai" -> "https://api.openai.com/v1"
      [] backend = "anthropic" -> "https://api.anthropic.com/v1"
      [] OTHER -> "https://generativelanguage.googleapis.com/v1beta"

\* A variant of WithDefaults: the fields left unset stay unset.
WithDefaults_None(backend, config) == config

\* Configure: if config.Model == "" {...}; if config.MaxTokens == 0 {...};
\* if config.BaseURL == "" {...}
WithDefaults(backend, config) ==
    [config EXCEPT
        !.Model = IF @ = "" THEN DefaultModel(backend) ELSE @,
        !.MaxTokens = IF @ = 0 THEN DefaultMaxTokens(backend) ELSE @,
        !.BaseURL = IF @ = "" THEN DefaultBaseURL(backend) ELSE @]

\* What the network gives one Complete call: the request could not be built,
\* could not be sent, or was answered with a status and a body; reading the
\* body can fail after the status line has arrived.
Bodies ==
    {[kind |-> "notjson", tin |-> 0, tout |-> 0],
     [kind |-> "error", tin |-> 0, tout |-> 0],
     [kind |-> "completion", tin |-> 1, tout |-> 2]}

NoBody == [kind |-> "none", tin |-> 0, tout |-> 0]

NoReply == [stage |-> "none", status |-> 0, readOk |-> FALSE, body |-> NoBody]

Statuses == {200, 429, 500}

Replies ==
    {[stage |-> st, status |-> 0, readOk |-> FALSE, body |-> NoBody]
        : st \in {"norequest", "nosend"}}
    \cup [stage : {"answered"}, status : Statuses, readOk : {TRUE}, body : Bodies]
    \cup [stage : {"answered"}, status : Statuses, readOk : {FALSE}, body : {NoBody}]

\* Complete with no API key returns before it touches the network.
RepliesFor(config) == IF config.APIKey = "" THEN {NoReply} ELSE Replies

\* The error Complete returns ("nil" for none), in the order of its checks.
CompleteErr(backend, config, reply) ==
    IF config.APIKey = "" THEN "ErrNoAPIKey"
    ELSE IF reply.stage = "norequest" THEN "failed to create request"
    ELSE IF reply.stage = "nosend" THEN "request failed"
    ELSE IF ~reply.readOk THEN "failed to read response"
    ELSE IF reply.status = 429 THEN "ErrRateLimited"
    ELSE IF backend = "anthropic"
         THEN IF reply.status # 200 THEN "API error (status)"
              ELSE IF reply.body.kind = "notjson" THEN "failed to parse response"
              ELSE "nil"
    ELSE IF reply.body.kind = "notjson" THEN "failed to parse response"
    ELSE IF reply.body.kind = "error" THEN "API error"
    ELSE IF reply.status # 200 THEN "API error (status)"
    ELSE "nil"

\* The price of tin input and tout output tokens.
Cost(backend, config, tin, tout) ==
    CASE backend = "openai" -> tin * 10000 + tout * 30000
      [] backend = "anthropic" -> tin * 3000 + tout * 15000
      [] OTHER ->
            IF config.Model = "gemini-1.5-flash"
            THEN tin * 75 + tout * 300
            ELSE tin * 1250 + tout * 5000

\* p.usage.TotalRequests++; TotalTokensIn += ...; EstimatedCostUSD += ...
AddUsage(u, backend, config, body) ==
    [TotalRequests |-> u.TotalRequests + 1,
     TotalTokensIn |-> u.TotalTokensIn + body.tin,
     TotalTokensOut |-> u.TotalTokensOut + body.tout,
     EstimatedCostUSD |-> u.EstimatedCostUSD + Cost(backend, config, body.tin, body.tout)]

ClientInit ==
    /\ cbackend \in Backends
    /\ cenv \in Environments
    /\ pconfig = ZeroConfig
    /\ pusage = NoUsage
    /\ clast = [op |-> "none"]
    /\ ccalls = 0

\* p.Configure(config)
Configure(config) ==
    /\ ccalls < MaxClientCalls
    /\ ccalls' = ccalls + 1
    /\ LET key == ResolveKey(cbackend, cenv, config)
           err == IF key = "" THEN "ErrNoAPIKey" ELSE "nil"
       IN /\ pconfig' = IF err = "nil"
                        THEN WithDefaults(cbackend, [config EXCEPT !.APIKey = key])
                        ELSE pconfig
          /\ clast' = [op |-> "Configure", config |-> config, err |-> err,
                       before |-> pconfig]
    /\ UNCHANGED <<cbackend, cenv, pusage>>
    /\ UNCHANGED nonClientVars

\* p.Complete(ctx, req)
Complete(reply) ==
    /\ ccalls < MaxClientCalls
    /\ ccalls' = ccalls + 1
    /\ reply \in RepliesFor(pconfig)
    /\ LET err == CompleteErr(cbackend, pconfig, reply)
       IN /\ pusage' = IF err = "nil"
                       THEN AddUsage(pusage, cbackend, pconfig, reply.body)
                       ELSE pusage
          /\ clast' = [op |-> "Complete", reply |-> reply, err |-> err,
                       before |-> pusage]
    /\ UNCHANGED <<cbackend, cenv, pconfig>>
    /\ UNCHANGED nonClientVars

ClientNext ==
    \/ \E config \in Configs : Configure(config)
    \/ \E reply \in Replies \cup {NoReply} : Complete(reply)

InitClient == ClientInit /\ PoolIdle /\ RLIdle /\ CacheIdle /\ CallerIdle /\ ConcIdle /\ KeyIdle /\ EngineIdle /\ ExtractIdle /\ ProviderIdle /\ RunIdle /\ BatcherIdle /\ PostIdle /\ ValidateIdle /\ CtxIdle /\ DedupIdle /\ WaitIdle /\ TuiIdle

SpecClient == InitClient /\ [][ClientNext]_vars

(***************************************************************************)
(* The code of one file from the per-pair snippets: the loop of Generate   *)
(* that joins them and postProcess (part_009:114-142, 237-275).  A snippet *)
(* is empty, plain test code, or test code that starts with the header of  *)
(* its language.                                                           *)
(***************************************************************************)
PostLanguages == {LangGo, LangPython, LangRust}

SnippetsOf(language) == {<<>>, <<"T">>, Imports(language, Package) \o <<"T">>}

PostInit ==
    /\ qlang \in PostLanguages
    /\ qsnippets \in SeqsUpTo(SnippetsOf(qlang), MaxSnippets)
    /\ qi = 1
    /\ qall = <<>>
    /\ qout = Nil

\* if testCode != "" { allTests.WriteString(testCode); allTests.WriteString("\n\n") }
CollectSnippet ==
    /\ qout = Nil
    /\ qi <= Len(qsnippets)
    /\ qall' = IF qsnippets[qi] # <<>>
               THEN qall \o qsnippets[qi] \o <<"\n", "\n">> ELSE qall
    /\ qi' = qi + 1
    /\ UNCHANGED <<qlang, qsnippets, qout>>
    /\ UNCHANGED nonPostVars

\* if allTests.Len() == 0 { return result, nil }; finalCode := e.postProcess(...)
PostProcessCode ==
    /\ qout = Nil
    /\ qi = Len(qsnippets) + 1
    /\ qall # <<>>
    /\ qout' = Ptr(PostProcess(qall, qlang, Package))
    /\ UNCHANGED <<qlang, qsnippets, qi, qall>>
    /\ UNCHANGED nonPostVars

PostNext == CollectSnippet \/ PostProcessCode

InitPost == PostInit /\ PoolIdle /\ RLIdle /\ CacheIdle /\ CallerIdle /\ ConcIdle /\ KeyIdle /\ EngineIdle /\ ExtractIdle /\ ProviderIdle /\ RunIdle /\ BatcherIdle /\ ClientIdle /\ ValidateIdle /\ CtxIdle /\ DedupIdle /\ WaitIdle /\ TuiIdle

SpecPost == InitPost /\ [][PostNext]_vars

(***************************************************************************)
(* The validate command: runValidate (cmd/validate.go), the Validator      *)
(* (part_003) and main (main.go).                                          *)
(***************************************************************************)
ValidateFlags == [minCoverage : {0, 50, 80}, failOnMissing : BOOLEAN]

\* checkTestFileExists: "For now, we just return false".
CheckTestFileExists(sf) == FALSE

\* Validator.Validate on n source files.
Validate(n) ==
    LET withTests == Cardinality({sf \in 1..n : CheckTestFileExists(sf)})
    IN  [FilesWithTests |-> withTests,
         FilesMissingTests |-> n - withTests,
         CoveragePercent |-> IF n > 0 THEN (withTests * 100) \div n ELSE 0]

\* The threshold checks at the end of runValidate.
ThresholdError(flags, result) ==
    IF flags.minCoverage > 0 /\ result.CoveragePercent < flags.minCoverage
    THEN "coverage below minimum"
    ELSE IF flags.failOnMissing /\ result.FilesMissingTests > 0
    THEN "files are missing tests"
    ELSE "nil"

ValidateInit ==
    /\ valFlags \in ValidateFlags
    /\ valFiles \in 0..MaxValFiles
    /\ valpc = "start"
    /\ valResult = <<>>
    /\ valErr = "nil"
    /\ exitCode = 0 - 1

\* filepath.Abs(valPath) and s.Scan(absPath)
ValScan(outcome) ==
    /\ valpc = "start"
    /\ IF outcome = "ok"
       THEN valpc' = "scanned" /\ UNCHANGED valErr
       ELSE valpc' = "returned" /\ valErr' = outcome
    /\ UNCHANGED <<valFlags, valFiles, valResult, exitCode>>
    /\ UNCHANGED nonValidateVars

\* validator.Validate(absPath, sourceFiles)
ValValidate ==
    /\ valpc = "scanned"
    /\ valResult' = Validate(valFiles)
    /\ valpc' = "validated"
    /\ UNCHANGED <<valFlags, valFiles, valErr, exitCode>>
    /\ UNCHANGED nonValidateVars

\* outputValidationResults(result, valOutputFormat)
ValOutput(ok) ==
    /\ valpc = "validated"
    /\ IF ok
       THEN valpc' = "printed" /\ UNCHANGED valErr
       ELSE valpc' = "returned" /\ valErr' = "output failed"
    /\ UNCHANGED <<valFlags, valFiles, valResult, exitCode>>
    /\ UNCHANGED nonValidateVars

\* Check thresholds; return nil
ValThresholds ==
    /\ valpc = "printed"
    /\ valErr' = ThresholdError(valFlags, valResult)
    /\ valpc' = "returned"
    /\ UNCHANGED <<valFlags, valFiles, valResult, exitCode>>
    /\ UNCHANGED nonValidateVars

\* main: if err := cmd.Execute(); err != nil { os.Exit(1) }
MainExit ==
    /\ valpc = "returned"
    /\ exitCode' = IF valErr # "nil" THEN 1 ELSE 0
    /\ valpc' = "exited"
    /\ UNCHANGED <<valFlags, valFiles, valResult, valErr>>
    /\ UNCHANGED nonValidateVars

ValidateNext ==
    \/ \E outcome \in {"ok", "failed to resolve path", "failed to scan path"} :
          ValScan(outcome)
    \/ ValValidate
    \/ \E ok \in BOOLEAN : ValOutput(ok)
    \/ ValThresholds
    \/ MainExit

InitValidate == ValidateInit /\ PoolIdle /\ RLIdle /\ CacheIdle /\ CallerIdle /\ ConcIdle /\ KeyIdle /\ EngineIdle /\ ExtractIdle /\ ProviderIdle /\ RunIdle /\ BatcherIdle /\ ClientIdle /\ PostIdle /\ CtxIdle /\ DedupIdle /\ WaitIdle /\ TuiIdle

SpecValidate == InitValidate /\ [][ValidateNext]_vars

(***************************************************************************)
(* Several workers of one pool, all using the same Engine (worker.go:49-71)*)
(* and so the same cache and provider, each running                        *)
(* generateTestForDefinition (part_009:185-216) for the prompts it takes   *)
(* from the queue.  The cache's Get and Set are atomic (one mutex); the    *)
(* cache is far from full (capacity 10000).                                *)
(***************************************************************************)
DedupWorkers == 1..MaxDedupWorkers
Prompts == {"p1", "p2"}

DedupInit ==
    /\ dqueue \in SeqsUpTo(Prompts, MaxDedupJobs)
    /\ dpc = [w \in DedupWorkers |-> "idle"]
    /\ dprompt = [w \in DedupWorkers |-> "none"]
    /\ dcached = {}
    /\ danswers = [p \in Prompts |-> 0]
    /\ dsrc = [w \in DedupWorkers |-> "none"]

\* The worker takes the next job; prompt := fmt.Sprintf(...)
WkTake(w) ==
    /\ dpc[w] = "idle"
    /\ dqueue # <<>>
    /\ dprompt' = [dprompt EXCEPT ![w] = Head(dqueue)]
    /\ dqueue' = Tail(dqueue)
    /\ dpc' = [dpc EXCEPT ![w] = "get"]
    /\ UNCHANGED <<dcached, danswers, dsrc>>
    /\ UNCHANGED nonDedupVars

\* if cached, hit := e.cache.Get(cacheKey); hit { return cached.Content, nil }
WkGet(w) ==
    /\ dpc[w] = "get"
    /\ IF dprompt[w] \in dcached
       THEN /\ dpc' = [dpc EXCEPT ![w] = "idle"]
            /\ dsrc' = [dsrc EXCEPT ![w] = "cache"]
       ELSE /\ dpc' = [dpc EXCEPT ![w] = "complete"]
            /\ UNCHANGED dsrc
    /\ UNCHANGED <<dqueue, dprompt, dcached, danswers>>
    /\ UNCHANGED nonDedupVars

\* resp, err := e.provider.Complete(ctx, ...); if err != nil { return "", ... }
WkComplete(w, ok) ==
    /\ dpc[w] = "complete"
    /\ IF ok
       THEN /\ danswers' = [danswers EXCEPT ![dprompt[w]] = @ + 1]
            /\ dpc' = [dpc EXCEPT ![w] = "set"]
            /\ dsrc' = [dsrc EXCEPT ![w] = "provider"]
       ELSE /\ dpc' = [dpc EXCEPT ![w] = "idle"]
            /\ dsrc' = [dsrc EXCEPT ![w] = "error"]
            /\ UNCHANGED danswers
    /\ UNCHANGED <<dqueue, dprompt, dcached>>
    /\ UNCHANGED nonDedupVars

\* e.cache.Set(cacheKey, resp); return code, nil
WkSet(w) ==
    /\ dpc[w] = "set"
    /\ dcached' = dcached \cup {dprompt[w]}
    /\ dpc' = [dpc EXCEPT ![w] = "idle"]
    /\ UNCHANGED <<dqueue, dprompt, danswers, dsrc>>
    /\ UNCHANGED nonDedupVars

DedupNext ==
    \/ \E w \in DedupWorkers : WkTake(w)
    \/ \E w \in DedupWorkers : WkGet(w)
    \/ \E w \in DedupWorkers : \E ok \in BOOLEAN : WkComplete(w, ok)
    \/ \E w \in DedupWorkers : WkSet(w)

InitDedup == DedupInit /\ PoolIdle /\ RLIdle /\ CacheIdle /\ CallerIdle /\ ConcIdle /\ KeyIdle /\ EngineIdle /\ ExtractIdle /\ ProviderIdle /\ RunIdle /\ BatcherIdle /\ ClientIdle /\ PostIdle /\ ValidateIdle /\ CtxIdle /\ WaitIdle /\ TuiIdle

SpecDedup == InitDedup /\ [][DedupNext]_vars

(***************************************************************************)
(* The running screen of the terminal UI (internal/ui/tui/running.go).     *)
(* RunningModel is a value: Init and startExecution have value receivers,  *)
(* so the command that startExecution returns holds its own copy of the    *)
(* model, and runGenerate (pointer receiver) works on that copy.  The      *)
(* program keeps updating and drawing the model it holds.                  *)
(***************************************************************************)
TuiFileLists == SeqsUpTo(FileKinds, MaxTuiFiles)

TuiInit ==
    /\ uiCancel = Nil
    /\ runCancel = Nil
    /\ tctx = FALSE
    /\ tfiles \in TuiFileLists
    /\ tfi = 0
    /\ tuipc = "start"
    /\ tmsg = "none"
    /\ mdone = FALSE
    /\ mlogs = 0
    /\ presses = 0
    /\ pressedAt = Nil

RunInProgress == tuipc \in {"loop", "generate"}

\* runGenerate up to the loop: ctx, cancel := context.WithCancel(...);
\* m.cancel = cancel (m is the copy); filepath.Abs, Scan, NewEngine; the
\* deferred cancel() runs at every return.
TuiRunBegin(setupOk) ==
    /\ tuipc = "start"
    /\ runCancel' = Ptr("cancel")
    /\ IF setupOk /\ tfiles # <<>>
       THEN /\ tuipc' = "loop"
            /\ tfi' = 1
            /\ UNCHANGED <<tmsg, tctx>>
       ELSE /\ tuipc' = "returned"
            /\ tmsg' = "error"
            /\ tctx' = TRUE
            /\ UNCHANGED tfi
    /\ UNCHANGED <<uiCancel, tfiles, mdone, mlogs, presses, pressedAt>>
    /\ UNCHANGED nonTuiVars

\* The loop: select { case <-ctx.Done(): return ...{Err: ctx.Err()}; default: },
\* the continue for a file without adapter, and the return after the last file.
TuiLoopStep ==
    /\ tuipc = "loop"
    /\ IF tfi > Len(tfiles)
       THEN /\ tuipc' = "returned"
            /\ tmsg' = "results"
            /\ tctx' = TRUE
            /\ UNCHANGED tfi
       ELSE IF tctx
       THEN /\ tuipc' = "returned"
            /\ tmsg' = "cancelled"
            /\ UNCHANGED <<tfi, tctx>>
       ELSE IF tfiles[tfi] = "noadapter"
       THEN /\ tfi' = tfi + 1
            /\ UNCHANGED <<tuipc, tmsg, tctx>>
       ELSE /\ tuipc' = "generate"
            /\ UNCHANGED <<tfi, tmsg, tctx>>
    /\ UNCHANGED <<uiCancel, runCancel, tfiles, mdone, mlogs, presses, pressedAt>>
    /\ UNCHANGED nonTuiVars

\* result, err := engine.Generate(file, adapter); results = append(...)
TuiGenerate ==
    /\ tuipc = "generate"
    /\ tfi' = tfi + 1
    /\ tuipc' = "loop"
    /\ UNCHANGED <<uiCancel, runCancel, tctx, tfiles, tmsg, mdone, mlogs,
                   presses, pressedAt>>
    /\ UNCHANGED nonTuiVars

\* Update, case "ctrl+x": if m.cancel != nil { m.cancel(); ... }, on the
\* model the program holds.
CtrlXCancels == uiCancel # Nil

\* Update(tea.KeyMsg "ctrl+x")
UpdateCtrlX ==
    /\ presses < MaxPresses
    /\ presses' = presses + 1
    /\ pressedAt' = IF pressedAt = Nil /\ RunInProgress THEN Ptr(tfi) ELSE pressedAt
    /\ IF CtrlXCancels
       THEN tctx' = TRUE /\ mlogs' = mlogs + 1
       ELSE UNCHANGED <<tctx, mlogs>>
    /\ UNCHANGED <<uiCancel, runCancel, tfiles, tfi, tuipc, tmsg, mdone>>
    /\ UNCHANGED nonTuiVars

\* Update(GenerateCompleteMsg): m.done = true; m.running = false
UpdateComplete ==
    /\ tuipc = "returned"
    /\ ~mdone
    /\ mdone' = TRUE
    /\ UNCHANGED <<uiCancel, runCancel, tctx, tfiles, tfi, tuipc, tmsg, mlogs,
                   presses, pressedAt>>
    /\ UNCHANGED nonTuiVars

TuiNext ==
    \/ \E setupOk \in BOOLEAN : TuiRunBegin(setupOk)
    \/ TuiLoopStep
    \/ TuiGenerate
    \/ UpdateCtrlX
    \/ UpdateComplete

InitTui == TuiInit /\ PoolIdle /\ RLIdle /\ CacheIdle /\ CallerIdle /\ ConcIdle /\ KeyIdle /\ EngineIdle /\ ExtractIdle /\ ProviderIdle /\ RunIdle /\ BatcherIdle /\ ClientIdle /\ PostIdle /\ ValidateIdle /\ CtxIdle /\ DedupIdle /\ WaitIdle

SpecTui == InitTui /\ [][TuiNext]_vars

(***************************************************************************)
(* Claims about the worker pool (specification SpecPool).                  *)
(***************************************************************************)
PFReturned == mpc = "done"

\* C1: with no cancellation, ProcessFiles on N files (any mix of kinds, any
\* worker count >= 1) terminates and returns exactly N results.
C1_ProcessFilesComplete ==
    /\ []((PFReturned /\ ~cancelled) => Len(collected) = Len(files))
    /\ <>(PFReturned \/ cancelled)

\* A run with files of all three kinds has returned without cancellation.
C1_Witness ==
    /\ PFReturned
    /\ ~cancelled
    /\ Len(files) = MaxFiles
    /\ {files[f] : f \in 1..Len(files)} = FileKinds

\* C2: once the context is cancelled, ProcessFiles still returns in every
\* interleaving (it is never left with no step to take before it has
\* returned), and with at most N results.
C2_ReturnsAfterCancel ==
    /\ Len(collected) <= Len(files)
    /\ cancelled => (PFReturned \/ ENABLED PoolStep)

(***************************************************************************)
(* Claims about the rate limiter (specification SpecRL).                   *)
(***************************************************************************)
RECURSIVE GrantsIn(_, _)
\* The Wait calls that returned nil during the refill intervals from..to.
GrantsIn(from, to) ==
    IF from > to THEN 0 ELSE grantsAt[from] + GrantsIn(from + 1, to)

MinOf(a, b) == IF a <= b THEN a ELSE b

\* C3: in every window of one minute (rpm consecutive refill intervals) at
\* most rpm calls to Wait return successfully, whatever the number of callers.
C3_AtMostRPMPerMinute ==
    \A k \in 0..MaxTicks : GrantsIn(k, MinOf(k + rpm - 1, MaxTicks)) <= rpm

\* C4: on a fresh limiter, once rpm Wait calls have succeeded and no refill
\* tick has occurred, no further Wait succeeds before a tick.
C4_NoGrantBeforeRefill == (ticks = 0) => granted <= rpm

\* The bucket is exhausted before any tick, and a further Wait is pending or
\* has returned its context's error.
C4_Witness ==
    /\ ticks = 0
    /\ granted = rpm
    /\ \E c \in Callers : cpc[c] = "err"
    /\ \E c \in Callers : cpc[c] = "waiting" /\ ~cctx[c]

(***************************************************************************)
(* Claims about the cache used by one caller (specification SpecCache) and *)
(* about GenerateKey (specification SpecKey).                              *)
(***************************************************************************)
\* The last step assigned a field of a response that Get had returned.
MutatedGetResult ==
    /\ lastOp.op = "mutate"
    /\ \E og \in fromGet : og[1] = lastOp.obj

C9_DistinctTriplesDistinctKeys ==
    (kpc = "done" /\ tripleA # tripleB) => keyA # keyB

(***************************************************************************)
(* Claims about the cache used by several goroutines (SpecCacheConc).      *)
(***************************************************************************)
AllCallsFinished == \A g \in Goroutines : gpc[g] = "idle"

\* C10: once all concurrent Get and Set calls have finished, hits + misses is
\* the number of Get calls made and hits the number of Get calls that found
\* their key.
C10_NoLostCounterUpdate ==
    AllCallsFinished =>
        /\ Stats.hits + Stats.misses = getsDone
        /\ Stats.hits = getsFound

(***************************************************************************)
(* Claims about the engine (specification SpecEngine).                     *)
(***************************************************************************)
\* C5: when the same rendered prompt is generated twice in sequence and the
\* first provider call succeeded, the second generation is a cache hit: no
\* further provider call is made and the hit counter goes up by one; for the
\* first two generations of a fresh engine the provider has been invoked
\* exactly once and the hit counter is 1.
C5_SecondGenerationFromCache ==
    \A j \in 2..Len(elog) :
        (elog[j - 1].key = elog[j].key /\ elog[j - 1].outcome = "ok") =>
            /\ elog[j].outcome = "hit"
            /\ elog[j].calls = elog[j - 1].calls
            /\ elog[j].hits = elog[j - 1].hits + 1
            /\ (j = 2 => elog[j].calls = 1 /\ elog[j].hits = 1)

\* The second generation of a fresh engine has the prompt of the first, whose
\* provider call succeeded.
C5_Witness ==
    /\ Len(elog) = 2
    /\ elog[1].outcome = "ok"
    /\ elog[2].key = elog[1].key
    /\ providerCalls = 1
    /\ Stats.hits = 1

\* The content is a code block fenced with the language's tag.
IsFencedBlock(content) ==
    MatchStarts(content, Fence \o Language \o <<"\n">>, Fence) # {}

\* C6: when the cache holds a fenced code block for a definition's key, the
\* code the engine produces for the definition is the interior of the block,
\* as on a miss answered with the same response.
C6_HitYieldsExtractedCode ==
    \A j \in 1..Len(elog) :
        (elog[j].outcome = "hit" /\ IsFencedBlock(elog[j].content)) =>
            elog[j].code = ExtractCodeFromResponse(elog[j].content, Language)

\* The generateTestForDefinition calls of the current Generate call.
IsCurrentCall(e) == e.call = ecall
CallLog == SelectSeq(elog, IsCurrentCall)

\* Every (definition, test type) pair was attempted, in the adapter's order.
AllPairsAttempted ==
    /\ Len(CallLog) = Len(einput.defs) * Len(ecfg.testTypes)
    /\ \A n \in 1..Len(CallLog) :
          /\ CallLog[n].def = ((n - 1) \div Len(ecfg.testTypes)) + 1
          /\ CallLog[n].type = ((n - 1) % Len(ecfg.testTypes)) + 1
          /\ CallLog[n].name = einput.defs[CallLog[n].def].name

\* The pairs that succeeded with non-empty code.
HasCode(e) == e.outcome \in {"ok", "hit"} /\ e.code # <<>>
Succeeded == SelectSeq(CallLog, HasCode)

RECURSIVE JoinCode(_)
JoinCode(es) ==
    IF es = <<>> THEN <<>>
    ELSE Head(es).code \o <<"\n", "\n">> \o JoinCode(Tail(es))

\* The result lists exactly the pairs that succeeded with non-empty code.
CoversSucceeded ==
    /\ eresult.returned = "result"
    /\ eresult.functionsTested = [n \in 1..Len(Succeeded) |-> Succeeded[n].name]
    /\ eresult.testCode = IF Succeeded = <<>> THEN <<>>
                          ELSE PostProcess(JoinCode(Succeeded), Language, Package)

GenerateReturned == epc = "returned" /\ einput.kind = "ok"

\* C7 (as claimed): for a file that is read and parsed, whatever provider
\* calls fail, Generate attempts every pair and returns a result with no
\* error that covers exactly the pairs that succeeded with non-empty code.
C7_PartialFailureIsolation ==
    GenerateReturned =>
        /\ AllPairsAttempted
        /\ CoversSucceeded
        /\ eresult.error = "none"

\* C7 (amended): Generate attempts every pair; when writing the test file
\* fails it returns that error alone; otherwise it returns a result covering
\* exactly the pairs that succeeded with non-empty code, which carries an
\* error exactly when validation was run and failed.
C7_PartialFailureIsolationAmended ==
    GenerateReturned =>
        /\ AllPairsAttempted
        /\ einput.writeFailed => eresult.returned = "writefail"
        /\ ~einput.writeFailed =>
              /\ CoversSucceeded
              /\ (eresult.error = "none") <=> ~einput.validationFailed

\* Three definitions, the second provider call failed, the first and third
\* succeeded: the result lists the first and the third.
C7_Witness ==
    /\ GenerateReturned
    /\ Len(CallLog) = 3
    /\ CallLog[1].outcome = "ok"
    /\ CallLog[2].outcome = "fail"
    /\ CallLog[3].outcome = "ok"
    /\ eresult.returned = "result"
    /\ eresult.error = "none"
    /\ eresult.functionsTested = <<einput.defs[1].name, einput.defs[3].name>>

(***************************************************************************)
(* C11.  The fenced blocks of a text, read from left to right: the fence   *)
(* markers pair up in order (first opens, second closes, third opens ...); *)
(* a block's tag is what follows its opening marker up to the line break,  *)
(* its interior is what follows that line break up to the closing marker.  *)
(***************************************************************************)
RECURSIVE FenceMarkers(_, _)
FenceMarkers(s, i) ==
    IF i + Len(Fence) - 1 > Len(s) THEN <<>>
    ELSE IF OccursAt(s, Fence, i) THEN <<i>> \o FenceMarkers(s, i + Len(Fence))
    ELSE FenceMarkers(s, i + 1)

FencedBlocks(s) ==
    LET m == FenceMarkers(s, 1)
    IN  [k \in 1..(Len(m) \div 2) |->
            LET t == SubSeq(s, m[2 * k - 1] + Len(Fence), m[2 * k] - 1)
                breaks == {i \in 1..Len(t) : t[i] = "\n"}
            IN  IF breaks = {}
                THEN [hasTagLine |-> FALSE, tag |-> <<>>, interior |-> t]
                ELSE [hasTagLine |-> TRUE,
                      tag |-> SubSeq(t, 1, MinSet(breaks) - 1),
                      interior |-> SubSeq(t, MinSet(breaks) + 1, Len(t))]]

BlocksTagged(s, tag) ==
    {k \in DOMAIN FencedBlocks(s) :
        FencedBlocks(s)[k].hasTagLine /\ FencedBlocks(s)[k].tag = tag}

\* C11: extractCodeFromResponse(response, lang) returns the trimmed interior
\* of the first fenced block tagged lang when there is one; otherwise the
\* trimmed interior of the first untagged fenced block; and the trimmed
\* response when the response has no fence marker at all.
C11_ExtractsFencedBlock ==
    xpc = "done" =>
        IF BlocksTagged(xresponse, xlang) # {}
        THEN xcode = TrimSpace(FencedBlocks(xresponse)[MinSet(BlocksTagged(xresponse, xlang))].interior)
        ELSE IF BlocksTagged(xresponse, <<>>) # {}
        THEN xcode = TrimSpace(FencedBlocks(xresponse)[MinSet(BlocksTagged(xresponse, <<>>))].interior)
        ELSE FenceMarkers(xresponse, 1) = <<>> => xcode = TrimSpace(xresponse)

(***************************************************************************)
(* C12, C13.  BatchComplete and the usage counters.                        *)
(***************************************************************************)
BatchReturned == bpc = "returned"

Failed == {i \in 1..Len(reqs) : ~reqs[i].answer.ok}

\* C12: BatchComplete returns a slice as long as the input whose position i
\* holds the response to request i when that request succeeded and nil when
\* it failed, and it returns an error exactly when some request failed.
C12_BatchResultsAligned ==
    BatchReturned =>
        /\ Len(bret.responses) = Len(reqs)
        /\ \A i \in 1..Len(reqs) :
              bret.responses[i] = IF i \in Failed THEN Nil ELSE Ptr(ResponseTo(reqs[i]))
        /\ (bret.err # Nil) <=> (Failed # {})

C12_Witness ==
    /\ BatchReturned
    /\ Len(reqs) = 2
    /\ Failed = {1}
    /\ bret.responses[2] # Nil
    /\ bret.err # Nil

OkRequests == {i \in 1..Len(reqs) : reqs[i].answer.ok}

RECURSIVE SumOver(_, _)
SumOver(S, field) ==
    IF S = {} THEN 0
    ELSE LET i == CHOOSE x \in S : TRUE
         IN  reqs[i].answer[field] + SumOver(S \ {i}, field)

\* The usage after exactly the calls for the requests in S were counted.
UsageOf(S) ==
    [TotalRequests |-> Cardinality(S),
     TotalTokensIn |-> SumOver(S, "tin"),
     TotalTokensOut |-> SumOver(S, "tout"),
     EstimatedCostUSD |-> SumOver(S, "tin") * 10 + SumOver(S, "tout") * 30]

AllCompleteFinished ==
    /\ bpc # "off"
    /\ \A g \in 1..Len(reqs) : ppc[g] = "done"

\* C13: when the concurrent Complete calls have all finished, TotalRequests
\* is the number of calls that succeeded and the token totals are the sums
\* over the successful calls; a failed call changes no counter (whenever the
\* lock is free the counters are those of the successful calls that passed
\* it); and every GetUsage snapshot is the usage of a set of successful
\* calls, each counted together with its tokens.
C13_UsageCountsSuccessfulCalls ==
    /\ AllCompleteFinished => usage = UsageOf(OkRequests)
    /\ (bpc # "off" /\ pmu = 0) =>
          usage = UsageOf({g \in OkRequests : ppc[g] \in {"returned", "done"}})
    /\ \A k \in 1..Len(snapshots) :
          \E S \in SUBSET OkRequests : snapshots[k] = UsageOf(S)

C13_Witness ==
    /\ AllCompleteFinished
    /\ Cardinality(OkRequests) = 2
    /\ reqs[1].answer # reqs[2].answer
    /\ Len(snapshots) = 2
    /\ snapshots[1].TotalRequests = 1
    /\ snapshots[2].TotalRequests = 2

(***************************************************************************)
(* C14.  The Engine and the rate limiter.                                  *)
(***************************************************************************)
\* C14: every Provider.Complete call the Engine issues follows a successful
\* RateLimiter.Wait made for it: the provider calls issued never outnumber
\* the permits a RateLimiter has granted.
C14_CompleteAfterWait == providerCalls <= granted

(***************************************************************************)
(* C15, C17.  The test file, validation and dry run.                       *)
(***************************************************************************)
\* C15: with Validate set and DryRun unset, the test file that Generate
\* wrote at the test path still exists when Generate returns, whether
\* validation passed or failed.
C15_TestFileKeptAfterValidation ==
    (/\ epc = "returned"
     /\ eresult.returned = "result"
     /\ ecfg.validate /\ ~ecfg.dryRun
     /\ written # <<>>) => testFile # Nil

\* C17: with DryRun set no test file is ever written and ValidateTests is
\* never invoked, also when Validate is set; and when Generate returns
\* generated code, the result carries that code and the test path.
C17_DryRunWritesNothing ==
    ecfg # <<>> /\ ecfg.dryRun =>
        /\ written = <<>>
        /\ testFile = Nil
        /\ validations = 0
        /\ (epc = "returned" /\ eresult.returned = "result" /\ allTests # <<>>) =>
              /\ eresult.testCode = PostProcess(allTests, Language, Package)
              /\ eresult.testPath

C17_Witness ==
    /\ ecfg.dryRun /\ ecfg.validate
    /\ epc = "returned"
    /\ eresult.returned = "result"
    /\ allTests # <<>>
    /\ eresult.testCode # <<>>
    /\ testFile = Nil

(***************************************************************************)
(* C16.  Validation failures and the outcome of the generate run.          *)
(***************************************************************************)
\* C16: a file whose tests were generated and written but failed validation
\* does not by itself make the run end with a failure: when every result
\* with an error is such a file, runGenerate does not return the
\* "file(s) failed to generate tests" error.
C16_ValidationFailureNotFatal ==
    (/\ runpc = "returned"
     /\ \A i \in 1..Len(gresults) :
           gresults[i].Error => gresults[i].outcome = "validationfailed")
        => gret # "failed"

(***************************************************************************)
(* C18.  Wait and cancellation.                                            *)
(***************************************************************************)
\* C18: a Wait call that is blocked on an empty bucket and whose context is
\* cancelled before any permit becomes available does not stay blocked (it
\* can return), returns the context's error and not nil, and consumes no
\* permit, also when a permit arrives before it has returned.
C18_CancelledWaitReturnsError ==
    /\ [](\A c \in Callers :
            (cpc[c] \in {"parked", "woken"} /\ cctx[c]) =>
                cpc[c] = "woken" /\ ENABLED WaitCtxReturn(c))
    /\ [][\A c \in Callers :
            cpc[c] = "woken" /\ cpc'[c] # "woken" =>
                cpc'[c] = "err" /\ tokens' = tokens /\ granted' = granted]_vars

\* A call blocked on the empty bucket was cancelled and, before it has
\* returned, a refill tick delivered a permit.
C18_Witness ==
    /\ \E c \in Callers : cpc[c] = "woken" /\ cctx[c]
    /\ ticks > 0
    /\ tokens = 1

(***************************************************************************)
(* C19, C20.  The Batcher.                                                 *)
(***************************************************************************)
\* C19: every Flush passes exactly the requests queued when it took the
\* queue, in the order they were added, to one Provider.BatchComplete call,
\* leaves the queue empty, and returns what that call returned; with an
\* empty queue it makes no provider call and returns nil, nil.  No request
\* is passed to the provider twice.
C19_FlushSendsQueue ==
    /\ lastFlush.n > 0 =>
          /\ lastFlush.left = <<>>
          /\ \A i \in 1..(Len(lastFlush.queued) - 1) :
                lastFlush.queued[i] < lastFlush.queued[i + 1]
          /\ IF lastFlush.queued = <<>>
             THEN lastFlush.calls = 0 /\ lastFlush.ret = NothingReturned
             ELSE /\ lastFlush.calls = 1
                  /\ lastFlush.sent = lastFlush.queued
                  /\ lastFlush.ret = lastFlush.answer
    /\ \A k, l \in 1..Len(batchCalls) : \A i \in 1..Len(batchCalls[k]) :
          \A j \in 1..Len(batchCalls[l]) :
             batchCalls[k][i] = batchCalls[l][j] => k = l /\ i = j

\* A Flush of two queued requests whose provider call failed, while a
\* request added since is pending.
C19_Witness ==
    /\ lastFlush.n > 0
    /\ Len(lastFlush.queued) = 2
    /\ lastFlush.ret.err # Nil
    /\ pending # <<>>

\* C20: in a sequence of Add calls made one after another on a Batcher with
\* batch size B, exactly every B-th Add triggers a flush, each such flush
\* sends exactly B requests, and after each Add the pending count is below B.
C20_FlushEveryBatchSize ==
    (seqOnly /\ lastAdd.n > 0) =>
        /\ lastAdd.flushed <=> (lastAdd.n % batchSize = 0)
        /\ lastAdd.flushed => lastAdd.sent = batchSize
        /\ lastAdd.pendingAfter < batchSize
        /\ lastAdd.pendingAfter = lastAdd.n % batchSize

C20_Witness ==
    /\ seqOnly
    /\ batchSize = 2
    /\ lastAdd.n = 4
    /\ lastAdd.flushed
    /\ Len(batchCalls) = 2

(***************************************************************************)
(* C21.  The capacity of the cache.                                        *)
(***************************************************************************)
\* C21: after any sequence of Set, Get and Clear calls on a cache created
\* with capacity C > 0 the cache holds at most C entries.
C21_AtMostCapacityEntries == Cardinality(DOMAIN entries) <= maxSize

\* A Set on a full cache of capacity 1 has replaced the entry of another key.
C21_Witness ==
    /\ maxSize = 1
    /\ lastOp.op = "set"
    /\ DOMAIN entries = {lastOp.key}
    /\ \E o \in owned : o # lastOp.obj /\ \A k \in DOMAIN entries : entries[k] # o
    /\ misses = 0 /\ hits = 1

(***************************************************************************)
(* Claims about Configure and Complete of one provider (SpecClient).       *)
(***************************************************************************)
\* C22: whenever the backend answers a Complete call with HTTP status 429,
\* Complete fails with ErrRateLimited whatever the response body contains,
\* and the provider's usage counters are unchanged.
C22_RateLimitedOn429 ==
    (clast.op = "Complete" /\ clast.reply.stage = "answered"
        /\ clast.reply.status = 429)
    => (clast.err = "ErrRateLimited" /\ pusage = clast.before)

\* The two halves of what a successful Configure stores, and the frame of a
\* failed one.
ConfigureStoresDefaults ==
    /\ pconfig.Model = IF clast.config.Model = ""
                       THEN DefaultModel(cbackend) ELSE clast.config.Model
    /\ pconfig.MaxTokens = IF clast.config.MaxTokens = 0
                           THEN DefaultMaxTokens(cbackend)
                           ELSE clast.config.MaxTokens

CallsBefore(n) == IF n = 1 THEN 0 ELSE elog[n - 1].calls

HeaderMark(language) ==
    IF language = LangGo THEN <<"package ">> ELSE <<"import pytest">>

Occurrences(s, pat) == Cardinality({i \in 1..Len(s) : OccursAt(s, pat, i)})

\* C25: the post-processed test code contains the header of the language
\* (Go, Python) exactly once, whether none, one or several of the snippets
\* already contain it.
C25_HeaderExactlyOnce ==
    qlang \in {LangGo, LangPython} =>
        \A code \in qout : Occurrences(code, HeaderMark(qlang)) = 1

(***************************************************************************)
(* C26.  Exit codes (SpecValidate).                                        *)
(***************************************************************************)
\* C26: the program exits with code 2 when validation fails (coverage below
\* --min-coverage, or tests missing with --fail-on-missing-tests), with
\* code 1 for any other error, and with code 0 on success.
C26_ExitCodes ==
    valpc = "exited" =>
        exitCode =
            IF valErr \in {"coverage below minimum", "files are missing tests"}
            THEN 2
            ELSE IF valErr # "nil" THEN 1 ELSE 0

(***************************************************************************)
(* C29.  Results of files that could not be processed (SpecPool).          *)
(***************************************************************************)
\* C29: every result the worker pool produces for a file that could not be
\* processed (no adapter for its language, or Engine.Generate returned an
\* error) has its Error field set.
C29_FailedFilesHaveError ==
    \A n \in 1..Len(collected) :
        files[collected[n].file] # "ok" => collected[n].error

(***************************************************************************)
(* C28.  The timeout of the provider calls (SpecEngine).                   *)
(***************************************************************************)
\* The provider call of the current pair can still get an answer.
CompleteCanSucceed ==
    ENABLED (\E content \in ProviderContents : \E victim \in Victims :
                GenPairMiss(content, victim))

\* C28: each Provider.Complete call the Engine makes gets its own full
\* timeout: whenever the Engine is about to call the provider for a pair,
\* also after a timeout expired during an earlier pair's call, the call can
\* still be answered.
C28_OwnTimeoutPerCall ==
    (epc = "pairs" /\ CurKey \notin DOMAIN entries) => CompleteCanSucceed

(***************************************************************************)
(* C30.  A file whose provider calls all fail (SpecEngine).                *)
(***************************************************************************)
AllCallsFailed ==
    /\ GenerateReturned
    /\ CallLog # <<>>
    /\ \A n \in 1..Len(CallLog) : CallLog[n].outcome = "fail"

\* C30: when every provider call for a file fails, Generate returns a result
\* with no error, an empty tested-function list and no test path, writes no
\* test file, and adds no entry to the cache.
C30_AllFailedGivesEmptyResult ==
    AllCallsFailed =>
        /\ eresult.returned = "result"
        /\ eresult.error = "none"
        /\ eresult.functionsTested = <<>>
        /\ eresult.testCount = 0
        /\ ~eresult.testPath
        /\ eresult.testCode = <<>>
        /\ written = <<>>
        /\ validations = 0
        /\ \A n \in 1..Len(CallLog) : CallLog[n].key \notin DOMAIN entries
        /\ DOMAIN entries = {elog[n].key : n \in {m \in 1..Len(elog) : elog[m].outcome = "ok"}}
        /\ misses = Len(SelectSeq(elog, LAMBDA e : e.outcome # "hit"))

\* Generate has returned for a file with two pairs whose provider calls both
\* failed, with validation and writing switched on.
C30_Witness ==
    /\ AllCallsFailed
    /\ Len(CallLog) >= 2
    /\ ecfg.validate /\ ~ecfg.dryRun
    /\ eresult = EmptyResult

(***************************************************************************)
(* C27.  Identical requests of concurrent workers (SpecDedup).             *)
(***************************************************************************)
\* C27: when two workers generate tests for the same rendered prompt at the
\* same time, the request is deduplicated: the provider answers that prompt
\* at most once and the other worker reuses the response.
C27_IdenticalRequestDeduplicated == \A p \in Prompts : danswers[p] <= 1

(***************************************************************************)
(* C31.  Results and files correspond one to one (SpecPool).               *)
(***************************************************************************)
\* The number of places file f is at: waiting in the jobs channel, held by a
\* worker, as a result in the results channel, as a collected result.
PlacesOf(f) ==
    Cardinality({n \in 1..Len(jobs) : jobs[n] = f})
    + Cardinality({w \in Workers : wjob[w] = f})
    + Cardinality({n \in 1..Len(results) : results[n].file = f})
    + Cardinality({n \in 1..Len(collected) : collected[n].file = f})

\* C31: no submitted job is processed by two workers (a file is never at two
\* places of the pool), and with no cancellation the results ProcessFiles
\* returns hold exactly one result for every input file.
C31_OneResultPerFile ==
    /\ \A f \in 1..Len(files) : PlacesOf(f) <= 1
    /\ (PFReturned /\ ~cancelled) =>
          \A f \in 1..Len(files) :
              Cardinality({n \in 1..Len(collected) : collected[n].file = f}) = 1

\* Two workers have processed MaxFiles files that all have an adapter, and
\* the result of the second file was collected before that of the first.
C31_Witness ==
    /\ PFReturned
    /\ ~cancelled
    /\ workers = 2
    /\ Len(files) = MaxFiles
    /\ \A f \in 1..Len(files) : ~NoAdapter(f)
    /\ collected[1].file = 2

(***************************************************************************)
(* C32.  The size of a batch under concurrent Add calls (SpecBatcher).     *)
(***************************************************************************)
\* C32: when the Batcher is used through Add only, from several goroutines,
\* every Provider.BatchComplete call receives at most batchSize requests.
C32_BatchAtMostBatchSize ==
    flushCalls = 0 =>
        \A n \in 1..Len(batchCalls) : Len(batchCalls[n]) <= batchSize

(***************************************************************************)
(* C33.  Responses obtained by the Batcher (SpecBatcher).                  *)
(***************************************************************************)
\* C33: no response obtained by the Batcher is dropped: the response
\* BatchComplete produced for a request is returned to a caller, also when
\* the request was sent by the flush that Add triggers.
C33_NoResponseDropped == lastAdd.n > 0 => lastAdd.discarded = {}

(***************************************************************************)
(* C34.  Every request is sent once (SpecBatcher).                         *)
(***************************************************************************)
\* The requests handed to Provider.BatchComplete so far, in order; those a
\* Flush holds between its critical section and its BatchComplete call.
AllSent == Flatten(batchCalls)

AllTaken ==
    Flatten([g \in BatchCallers |->
                IF tpc[g] = "flushcall" THEN treqs[g].reqs ELSE <<>>])

\* Every request of 1..n occurs exactly once in s.
EachOnce(s, n) == Len(s) = n /\ {s[i] : i \in 1..Len(s)} = 1..n

SetOnPresentKeyOfFullCache ==
    /\ cacheOps' = cacheOps + 1
    /\ lastOp'.op = "set"
    /\ lastOp'.key \in DOMAIN entries
    /\ Cardinality(DOMAIN entries) >= maxSize

\* C35: Set on a key that is already present in a full cache replaces that
\* key's entry and removes no other key: the set of cached keys is unchanged.
C35_SetPresentKeyKeepsKeys ==
    [][SetOnPresentKeyOfFullCache =>
          /\ DOMAIN entries' = DOMAIN entries
          /\ entries'[lastOp'.key] = lastOp'.obj]_vars

(***************************************************************************)
(* C36.  The object given to Set (SpecCache).                              *)
(***************************************************************************)
\* What a Get would return now for each cached key.
GetResults == [k \in DOMAIN entries |-> GetCopy(k)]

\* The step assigns a field of a response object the caller obtained itself
\* (the objects it passes to Set).
MutatesOwnResponse ==
    /\ cacheOps' = cacheOps + 1
    /\ lastOp'.op = "mutate"
    /\ lastOp'.obj \in owned

\* C36: the cache is isolated from the response object given to Set:
\* mutating that object after Set has returned does not change what later
\* Get calls return.
C36_SetStoresIndependentCopy ==
    [][MutatesOwnResponse => GetResults' = GetResults]_vars

(***************************************************************************)
(* C37.  Wait on a context that is already cancelled (SpecRL).             *)
(***************************************************************************)
\* C37: a Wait call whose context is already cancelled when the call is made
\* returns the context's error and consumes no permit, also when permits
\* are available: such a call never returns nil.
C37_CancelledWaitTakesNoPermit ==
    \A c \in Callers : cpre[c] => cpc[c] \in {"waiting", "err"}

(***************************************************************************)
(* C38.  Fence markers and prose in the extracted code (SpecExtract).      *)
(***************************************************************************)
\* The word that stands for prose outside the fenced blocks.
Prose == "x"

\* C38: when the response contains at least one complete fenced block, the
\* text extractCodeFromResponse returns contains no fence marker and no prose
\* from outside the fenced blocks, whatever the tags of the blocks are.
C38_NoFenceNoProse ==
    (xpc = "done" /\ Len(FencedBlocks(xresponse)) >= 1) =>
        /\ ~Contains(xcode, Fence)
        /\ \A i \in 1..Len(xcode) : xcode[i] # Prose

(***************************************************************************)
(* C39.  ctrl+x on the running screen (SpecTui).                           *)
(***************************************************************************)
\* C39: pressing ctrl+x on the running screen while a generate run is in
\* progress cancels the context of that run, so the run starts no further
\* file and completes with a cancellation error.
C39_CtrlXCancelsRun ==
    \A at \in pressedAt :
        /\ tctx
        /\ tfi <= at + 1
        /\ tuipc = "returned" => tmsg = "cancelled"

====
